---- MODULE Spec2Model ----
(***************************************************************************)
(* Pet health diary bot: the conversation engine (router, wizards, FSM     *)
(* store) and the reminder worker, modelled from src/app/bot.py,           *)
(* src/app/models.py, src/app/validators.py and src/keyboards.py.          *)
(*                                                                         *)
(* Representation.  A Python str is a sequence of one-character strings.   *)
(* An Optional value is None (the empty sequence) or Some(v) (a sequence   *)
(* of one element).  A naive datetime is an integer number of ticks since  *)
(* ordinal day 0, TicksPerDay ticks to the day.  Table rows are sequences  *)
(* indexed by their autoincrement id.                                      *)
(***************************************************************************)
EXTENDS Integers, Sequences, FiniteSets, TLC

VARIABLES
    run,          \* which run of the bot this is (see Runs)
    clock,        \* datetime.utcnow(), in ticks
    users,        \* table users: Seq of [telegram_id, active_pet_id]
    pets,         \* table pets
    entries,      \* table entries
    attachments,  \* table attachments
    reminders,    \* table reminders
    fsm,          \* FSM storage: telegram id -> [state, data]
    worker,       \* reminders_worker: its position, its `now`, its rows
    deliveries,   \* per reminder id, the outcomes of bot.send_message for it
    last,         \* the last update handled: who, by which handler, the reply
    update        \* the last update handled: the Update object itself

vars == <<run, clock, users, pets, entries, attachments, reminders, fsm, worker,
          deliveries, last, update>>

store == <<users, pets, entries, attachments, reminders>>

-----------------------------------------------------------------------------
(* Bounds of the model *)

MaxPets == 2
MaxEntries == 2
MaxReminders == 2
MaxAttachments == 2
MaxTicks == 2
TicksPerDay == 2

-----------------------------------------------------------------------------
(* Optional values *)

None == <<>>
Some(v) == <<v>>
IsSome(o) == o # None
The(o) == o[1]

Min(S) == CHOOSE x \in S : \A y \in S : x <= y

-----------------------------------------------------------------------------
(* Python str operations, on sequences of characters *)

Digits == <<"0", "1", "2", "3", "4", "5", "6", "7", "8", "9">>

IsDigit(c) == \E i \in 1..Len(Digits) : Digits[i] = c

DigitVal(c) == (CHOOSE i \in 1..Len(Digits) : Digits[i] = c) - 1

IsSpace(c) == c = " "

AllDigits(s) == \A i \in 1..Len(s) : IsDigit(s[i])

RECURSIVE DecVal(_)
DecVal(s) ==
    IF s = <<>> THEN 0
    ELSE DecVal(SubSeq(s, 1, Len(s) - 1)) * Len(Digits) + DigitVal(s[Len(s)])

\* str.strip()
strip(s) ==
    LET keep == {i \in 1..Len(s) : ~IsSpace(s[i])}
    IN  IF s = <<>> \/ (~IsSpace(s[1]) /\ ~IsSpace(s[Len(s)])) THEN s
        ELSE IF keep = {} THEN <<>>
        ELSE SubSeq(s, Min(keep), CHOOSE j \in keep : \A k \in keep : k <= j)

\* str.startswith(p)
startswith(s, p) == Len(s) >= Len(p) /\ SubSeq(s, 1, Len(p)) = p

\* str.split(sep) for a one-character separator: the list of fields
RECURSIVE split(_, _)
split(s, sep) ==
    LET cut == {i \in 1..Len(s) : s[i] = sep}
    IN  IF cut = {} THEN <<s>>
        ELSE <<SubSeq(s, 1, Min(cut) - 1)>>
                 \o split(SubSeq(s, Min(cut) + 1, Len(s)), sep)

\* str.partition(sep)[2]: what follows the first separator, "" without one
partition_tail(s, sep) ==
    LET cut == {i \in 1..Len(s) : s[i] = sep}
    IN  IF cut = {} THEN <<>> ELSE SubSeq(s, Min(cut) + 1, Len(s))

\* "%d" % n for n >= 0, and zero padded to a width
RECURSIVE str(_)
str(n) ==
    IF n < Len(Digits) THEN <<Digits[n + 1]>>
    ELSE str(n \div Len(Digits)) \o <<Digits[(n % Len(Digits)) + 1]>>

RECURSIVE zfill(_, _)
zfill(s, w) == IF Len(s) >= w THEN s ELSE zfill(<<"0">> \o s, w)

\* An int is unbounded and an INTEGER parameter of SQLite is 64 bits wide:
\* binding an int past 2^63 - 1 raises OverflowError.  The model keeps the
\* value of a numeral that has fewer digits than BeyondInt64, and reads a
\* longer numeral as BeyondInt64.
BeyondInt64 == 2^30

Bindable(n) == n < BeyondInt64

\* int(s): Some(n), or None where Python raises ValueError
int(s) ==
    LET t == strip(s)
        signed == t # <<>> /\ t[1] \in {"-", "+"}
        body == IF signed THEN Tail(t) ELSE t
        n == IF Len(body) < Len(str(BeyondInt64)) THEN DecVal(body) ELSE BeyondInt64
    IN  IF body = <<>> \/ ~AllDigits(body) THEN None
        ELSE IF signed /\ t[1] = "-" THEN Some(0 - n)
        ELSE Some(n)

-----------------------------------------------------------------------------
(* datetime: the proleptic Gregorian calendar of the datetime module *)

IsLeap(y) == y % 4 = 0 /\ (y % 100 # 0 \/ y % 400 = 0)

DaysInMonth(y, m) ==
    IF m = 2 THEN (IF IsLeap(y) THEN 29 ELSE 28)
    ELSE IF m \in {4, 6, 9, 11} THEN 30 ELSE 31

RECURSIVE DaysBeforeMonth(_, _)
DaysBeforeMonth(y, m) ==
    IF m = 1 THEN 0 ELSE DaysBeforeMonth(y, m - 1) + DaysInMonth(y, m - 1)

DaysBeforeYear(y) ==
    (y - 1) * 365 + ((y - 1) \div 4) - ((y - 1) \div 100) + ((y - 1) \div 400)

\* date(y, m, d).toordinal()
Ordinal(y, m, d) == DaysBeforeYear(y) + DaysBeforeMonth(y, m) + d

\* date.fromordinal(n), as [year, month, day]
FromOrdinal(n) ==
    LET y == CHOOSE yy \in ((n \div 366))..((n \div 365) + 1) :
                 DaysBeforeYear(yy) < n /\ n <= DaysBeforeYear(yy + 1)
        r == n - DaysBeforeYear(y)
        m == CHOOSE mm \in 1..12 :
                 DaysBeforeMonth(y, mm) < r
                 /\ r <= DaysBeforeMonth(y, mm) + DaysInMonth(y, mm)
    IN  [year |-> y, month |-> m, day |-> r - DaysBeforeMonth(y, m)]

\* datetime(y, m, d): midnight of that day, in ticks
DateTime(y, m, d) == Ordinal(y, m, d) * TicksPerDay

\* t + timedelta(days=n)
PlusDays(t, n) == t + n * TicksPerDay

\* datetime.min <= t <= datetime.max: datetime arithmetic whose result is
\* outside raises OverflowError
Representable(t) ==
    DateTime(1, 1, 1) <= t /\ t < DateTime(9999, 12, 31) + TicksPerDay

\* datetime(t.year, t.month, t.day): t truncated to its calendar day
DateOf(t) == (t \div TicksPerDay) * TicksPerDay

YMD(t) == FromOrdinal(t \div TicksPerDay)

\* datetime.strptime(text, "%Y-%m-%d"): Some([year, month, day]) or None
\* (ValueError).  %Y is four digits, %m is 1[0-2]|0[1-9]|[1-9], %d is
\* 3[01]|[12]\d|0[1-9]|[1-9]| [1-9]; the day must exist in the month.
strptime(text) ==
    LET f == split(text, "-")
        okY == Len(f[1]) = 4 /\ AllDigits(f[1])
        okM == /\ Len(f[2]) \in {1, 2} /\ AllDigits(f[2])
               /\ DecVal(f[2]) \in 1..12
        dd  == IF Len(f[3]) = 2 /\ f[3][1] = " " THEN Tail(f[3]) ELSE f[3]
        okD == /\ Len(f[3]) \in {1, 2} /\ dd # <<>> /\ AllDigits(dd)
               /\ DecVal(dd) \in 1..31
    IN  IF Len(f) # 3 THEN None
        ELSE IF ~(okY /\ okM /\ okD) THEN None
        ELSE IF DecVal(f[1]) < 1 THEN None
        ELSE IF DecVal(dd) > DaysInMonth(DecVal(f[1]), DecVal(f[2])) THEN None
        ELSE Some([year |-> DecVal(f[1]), month |-> DecVal(f[2]),
                   day |-> DecVal(dd)])

\* datetime.isoformat() of a midnight datetime: "YYYY-MM-DDT00:00:00"
MidnightSuffix == <<"T", "0", "0", ":", "0", "0", ":", "0", "0">>

isoformat(t) ==
    LET d == YMD(t)
    IN  zfill(str(d.year), 4) \o <<"-">> \o zfill(str(d.month), 2) \o <<"-">>
            \o zfill(str(d.day), 2) \o MidnightSuffix

\* datetime.fromisoformat(raw) for what isoformat writes: Some(ticks) or None
fromisoformat(raw) ==
    LET n == Len(raw) - Len(MidnightSuffix)
        d == IF n < 0 THEN None ELSE strptime(SubSeq(raw, 1, n))
    IN  IF n < 0 \/ SubSeq(raw, n + 1, Len(raw)) # MidnightSuffix \/ d = None
        THEN None
        ELSE Some(DateTime(The(d).year, The(d).month, The(d).day))

-----------------------------------------------------------------------------
(* FSM states (aiogram StatesGroup members; NoState is Python's None) *)

NoState == "None"
AddPetStates_name == "AddPetStates:name"
AddPetStates_species == "AddPetStates:species"
AddPetStates_breed == "AddPetStates:breed"
AddEntryStates_type == "AddEntryStates:type"
AddEntryStates_date_choice == "AddEntryStates:date_choice"
AddEntryStates_custom_date == "AddEntryStates:custom_date"
AddEntryStates_text == "AddEntryStates:text"
AttachFilesStates_adding == "AttachFilesStates:adding"
VaccineReminderStates_choosing_vaccine == "VaccineReminderStates:choosing_vaccine"
VaccineReminderStates_choosing_delay == "VaccineReminderStates:choosing_delay"
VaccineReminderStates_custom_delay == "VaccineReminderStates:custom_delay"

WizardStates ==
    {AddPetStates_name, AddPetStates_species, AddPetStates_breed,
     AddEntryStates_type, AddEntryStates_date_choice,
     AddEntryStates_custom_date, AddEntryStates_text,
     AttachFilesStates_adding,
     VaccineReminderStates_choosing_vaccine,
     VaccineReminderStates_choosing_delay,
     VaccineReminderStates_custom_delay}

-----------------------------------------------------------------------------
(* String literals of the source.  The labels of the main menu buttons    *)
(* (emoji and Cyrillic in src/keyboards.py) are written transliterated.   *)

Colon == ":"
cancel == <<"c", "a", "n", "c", "e", "l">>
start == <<"s", "t", "a", "r", "t">>
help == <<"h", "e", "l", "p">>

MAIN_MENU_BUTTON_PETS == <<"P", "i", "t", "o", "m", "t", "s", "y">>
MAIN_MENU_BUTTON_ENTRY == <<"Z", "a", "p", "i", "s">>
MAIN_MENU_BUTTON_HISTORY == <<"I", "s", "t", "o", "r", "i", "y", "a">>
MAIN_MENU_BUTTON_SUMMARY == <<"S", "v", "o", "d", "k", "a">>
MAIN_MENU_BUTTON_SETTINGS == <<"N", "a", "s", "t", "r", "o", "y", "k", "i">>

MainMenuButtons ==
    {MAIN_MENU_BUTTON_PETS, MAIN_MENU_BUTTON_ENTRY, MAIN_MENU_BUTTON_HISTORY,
     MAIN_MENU_BUTTON_SUMMARY, MAIN_MENU_BUTTON_SETTINGS}

PetSpecies == {<<"c", "a", "t">>, <<"d", "o", "g">>, <<"o", "t", "h", "e", "r">>}

EntryType == {<<"s", "y", "m", "p", "t", "o", "m">>, <<"v", "i", "s", "i", "t">>, <<"v", "a", "c", "c", "i", "n", "e">>, <<"m", "e", "d", "s">>, <<"o", "t", "h", "e", "r">>}

\* title_map of vaccine_choose_vaccine, and its default
title_map(slug) ==
    CASE slug = <<"r", "a", "b", "i", "e", "s">> -> "rabies"
      [] slug = <<"d", "h", "p", "p", "i">> -> "DHPPi"
      [] slug = <<"l", "e", "p", "t", "o">> -> "leptospirosis"
      [] slug = <<"p", "c", "r">> -> "PCR complex"
      [] slug = <<"o", "t", "h", "e", "r">> -> "other vaccine"
      [] OTHER -> "vaccine"

DEWORMER_TITLE == "dewormer repeat"

\* The slugs build_vaccine_keyboard offers for a species
VaccineMenu(species) ==
    (IF species = <<"d", "o", "g">> THEN {<<"r", "a", "b", "i", "e", "s">>, <<"d", "h", "p", "p", "i">>, <<"l", "e", "p", "t", "o">>}
     ELSE IF species = <<"c", "a", "t">> THEN {<<"r", "a", "b", "i", "e", "s">>, <<"p", "c", "r">>}
     ELSE {}) \cup {<<"o", "t", "h", "e", "r">>}

\* The payloads build_delay_keyboard offers
DelayMenu == {<<"3", "0">>, <<"9", "0">>, <<"1", "8", "0">>, <<"3", "6", "5">>, <<"c", "u", "s", "t", "o", "m">>}

\* f"a:b" and f"a:b:c"
Join2(a, b) == a \o <<Colon>> \o b
Join3(a, b, c) == a \o <<Colon>> \o b \o <<Colon>> \o c

P_pets_add == Join2(<<"p", "e", "t", "s">>, <<"a", "d", "d">>)
P_pets_back == Join2(<<"p", "e", "t", "s">>, <<"b", "a", "c", "k">>)
P_pets_list == Join2(<<"p", "e", "t", "s">>, <<"l", "i", "s", "t">>)
P_breed_skip == Join2(<<"b", "r", "e", "e", "d">>, <<"s", "k", "i", "p">>)
P_attach_done == Join2(<<"e", "n", "t", "r", "y">>, <<"a", "t", "t", "a", "c", "h", "_", "d", "o", "n", "e">>)
P_history_back == Join2(<<"h", "i", "s", "t", "o", "r", "y">>, <<"b", "a", "c", "k">>)
P_species == <<"s", "p", "e", "c", "i", "e", "s">> \o <<Colon>>
P_pet == <<"p", "e", "t">> \o <<Colon>>
P_set_active == Join2(<<"p", "e", "t">>, <<"s", "e", "t", "_", "a", "c", "t", "i", "v", "e">>) \o <<Colon>>
P_entry_type == Join2(<<"e", "n", "t", "r", "y">>, <<"t", "y", "p", "e">>) \o <<Colon>>
P_entry_date == Join2(<<"e", "n", "t", "r", "y">>, <<"d", "a", "t", "e">>) \o <<Colon>>
P_entry_attach == Join2(<<"e", "n", "t", "r", "y">>, <<"a", "t", "t", "a", "c", "h">>) \o <<Colon>>
P_entry_view == Join2(<<"e", "n", "t", "r", "y">>, <<"v", "i", "e", "w">>) \o <<Colon>>
P_entry_files == Join2(<<"e", "n", "t", "r", "y">>, <<"f", "i", "l", "e", "s">>) \o <<Colon>>
P_file_send == Join2(<<"f", "i", "l", "e">>, <<"s", "e", "n", "d">>) \o <<Colon>>
P_vrem_start == Join2(<<"v", "r", "e", "m">>, <<"s", "t", "a", "r", "t">>) \o <<Colon>>
P_vrem_vaccine == Join2(<<"v", "r", "e", "m">>, <<"v", "a", "c", "c", "i", "n", "e">>) \o <<Colon>>
P_vrem_delay == Join2(<<"v", "r", "e", "m">>, <<"d", "e", "l", "a", "y">>) \o <<Colon>>
P_mrem_start == Join2(<<"m", "r", "e", "m">>, <<"s", "t", "a", "r", "t">>) \o <<Colon>>
P_summary_days == Join2(<<"s", "u", "m", "m", "a", "r", "y">>, <<"d", "a", "y", "s">>) \o <<Colon>>

-----------------------------------------------------------------------------
(* Updates.  A message carries text, a photo or a document; a callback    *)
(* query carries data.                                                    *)

TextMsg(t) == [kind |-> "text", body |-> t, file |-> None]
PhotoMsg(f) == [kind |-> "photo", body |-> <<>>, file |-> Some(f)]
DocumentMsg(f) == [kind |-> "document", body |-> <<>>, file |-> Some(f)]
Callback(d) == [kind |-> "callback", body |-> d, file |-> None]

IsMessage(e) == e.kind \in {"text", "photo", "document"}

\* aiogram Command(commands={c}): the first word of the text is "/" + c
FirstWord(t) ==
    LET s == strip(t)
        sp == {i \in 1..Len(s) : IsSpace(s[i])}
    IN  IF sp = {} THEN s ELSE SubSeq(s, 1, Min(sp) - 1)

IsCommand(e, c) == e.kind = "text" /\ FirstWord(e.body) = <<"/">> \o c

-----------------------------------------------------------------------------
(* The router: setup_routes registers the handlers in this order; each    *)
(* observer (message, callback_query) calls the first handler whose       *)
(* filters all pass.                                                       *)

AnyState == "*"

Rule(o, h, st, p, a) == [obs |-> o, handler |-> h, state |-> st, pred |-> p, arg |-> a]

Rules == <<
    Rule("message", "cmd_start", AnyState, "command", start),
    Rule("message", "cmd_help", AnyState, "command", help),
    Rule("message", "cmd_cancel", AnyState, "command", cancel),
    Rule("message", "pets_add_name", AddPetStates_name, "any", <<>>),
    Rule("callback", "pets_add_species", AddPetStates_species, "prefix", P_species),
    Rule("callback", "pets_add_breed_skip", AddPetStates_breed, "eq", P_breed_skip),
    Rule("message", "pets_add_breed", AddPetStates_breed, "any", <<>>),
    Rule("callback", "entry_type_callback", AddEntryStates_type, "prefix", P_entry_type),
    Rule("callback", "entry_date_callback", AddEntryStates_date_choice, "prefix", P_entry_date),
    Rule("message", "entry_custom_date_message", AddEntryStates_custom_date, "any", <<>>),
    Rule("message", "entry_text_message", AddEntryStates_text, "any", <<>>),
    Rule("callback", "vaccine_reminder_start", AnyState, "prefix", P_vrem_start),
    Rule("callback", "vaccine_choose_vaccine", VaccineReminderStates_choosing_vaccine, "prefix", P_vrem_vaccine),
    Rule("callback", "vaccine_choose_delay", VaccineReminderStates_choosing_delay, "prefix", P_vrem_delay),
    Rule("message", "vaccine_custom_delay_message", VaccineReminderStates_custom_delay, "any", <<>>),
    Rule("callback", "meds_dewormer_reminder_start", AnyState, "prefix", P_mrem_start),
    Rule("callback", "entry_attach_start", AnyState, "prefix", P_entry_attach),
    Rule("callback", "entry_attach_done", AttachFilesStates_adding, "eq", P_attach_done),
    Rule("message", "entry_attach_photo", AttachFilesStates_adding, "photo", <<>>),
    Rule("message", "entry_attach_document", AttachFilesStates_adding, "document", <<>>),
    Rule("callback", "pets_add_start", AnyState, "eq", P_pets_add),
    Rule("callback", "pets_back_callback", AnyState, "eq", P_pets_back),
    Rule("callback", "pets_list_callback", AnyState, "eq", P_pets_list),
    Rule("callback", "pet_set_active_callback", AnyState, "prefix", P_set_active),
    Rule("callback", "pet_card_callback", AnyState, "prefix", P_pet),
    Rule("callback", "entry_view_callback", AnyState, "prefix", P_entry_view),
    Rule("callback", "entry_files_callback", AnyState, "prefix", P_entry_files),
    Rule("callback", "file_send_callback", AnyState, "prefix", P_file_send),
    Rule("callback", "history_back_callback", AnyState, "eq", P_history_back),
    Rule("callback", "summary_period_callback", AnyState, "prefix", P_summary_days),
    Rule("message", "handle_main_menu", AnyState, "text_in", <<>>),
    Rule("message", "handle_main_menu", AnyState, "any", <<>>) >>

Matches(r, e, st) ==
    /\ r.obs = (IF IsMessage(e) THEN "message" ELSE "callback")
    /\ r.state \in {AnyState, st}
    /\ CASE r.pred = "command" -> IsCommand(e, r.arg)
         [] r.pred = "prefix" -> startswith(e.body, r.arg)
         [] r.pred = "eq" -> e.body = r.arg
         [] r.pred = "photo" -> e.kind = "photo"
         [] r.pred = "document" -> e.kind = "document"
         [] r.pred = "text_in" -> e.kind = "text" /\ e.body \in MainMenuButtons
         [] OTHER -> TRUE

UNHANDLED == "unhandled"

\* Faulty variant of the dispatcher: a handler registered for the user's state
\* is preferred to one registered for every state
Route_state_first(e, st) ==
    LET hit == {i \in 1..Len(Rules) : Matches(Rules[i], e, st)}
        own == {i \in hit : Rules[i].state = st}
    IN  IF hit = {} THEN UNHANDLED
        ELSE IF own # {} THEN Rules[Min(own)].handler
        ELSE Rules[Min(hit)].handler

\* Faulty variant of the dispatcher: the last registered rule that matches
Route_last_match(e, st) ==
    LET hit == {i \in 1..Len(Rules) : Matches(Rules[i], e, st)}
    IN  IF hit = {} THEN UNHANDLED
        ELSE Rules[CHOOSE i \in hit : \A j \in hit : j <= i].handler

\* The handler the dispatcher calls for update e of a user in state st
Route(e, st) ==
    LET hit == {i \in 1..Len(Rules) : Matches(Rules[i], e, st)}
    IN  IF hit = {} THEN UNHANDLED ELSE Rules[Min(hit)].handler

-----------------------------------------------------------------------------
(* FSMContext: one slot per user, a state tag and a data bag.  The bag is  *)
(* a function from the keys present to Optional values: None is Python's   *)
(* None, Some(v) any other value.                                          *)

EmptyData == [k \in {} |-> None]

\* data.get(k)
Get(data, k) == IF k \in DOMAIN data THEN data[k] ELSE None

\* state.set_state(st)
set_state(f, st) == [f EXCEPT !.state = st]

\* state.update_data(**kv)
update_data(f, kv) == [f EXCEPT !.data = kv @@ f.data]

\* state.clear()
Cleared == [state |-> NoState, data |-> EmptyData]

\* Python truthiness of an Optional str and of an Optional int
TruthyStr(o) == o # None /\ The(o) # <<>>
TruthyInt(o) == o # None /\ The(o) # 0

-----------------------------------------------------------------------------
(* The entity store *)

TelegramIds == {"alice", "bob"}
BotId == "bot"

NewUser(tg) == [telegram_id |-> tg, active_pet_id |-> None]

\* select(User).where(User.telegram_id == tg): the row id, 0 for no row
UserIdOf(tg) ==
    LET S == {i \in DOMAIN users : users[i].telegram_id = tg}
    IN  IF S = {} THEN 0 ELSE Min(S)

\* The users table after "if user is None: session.add(User(...)); commit"
EnsuredUsers(tg) == IF UserIdOf(tg) = 0 THEN Append(users, NewUser(tg)) ELSE users

EnsuredUserId(tg) == IF UserIdOf(tg) = 0 THEN Len(users) + 1 ELSE UserIdOf(tg)

\* select(Pet).where(Pet.id == pid, Pet.user_id == uid)
OwnedPet(pid, uid) == pid \in DOMAIN pets /\ pets[pid].user_id = uid

\* select(Entry).join(Pet, ...).where(Entry.id == eid, Pet.user_id == uid)
OwnedEntry(eid, uid) ==
    /\ eid \in DOMAIN entries
    /\ entries[eid].pet_id \in DOMAIN pets
    /\ pets[entries[eid].pet_id].user_id = uid

\* select(Attachment).join(Entry).join(Pet).where(Attachment.id == aid, ...)
OwnedAttachment(aid, uid) ==
    /\ aid \in DOMAIN attachments
    /\ OwnedEntry(attachments[aid].entry_id, uid)

-----------------------------------------------------------------------------
(* Runs.  The database outlives the process and the FSM storage does not: *)
(* a run of the bot starts from a database earlier runs have written,     *)
(* with no conversation open and the worker about to make its first pass. *)
(* Each run of the model fixes that database and the updates the users    *)
(* send in each conversation state during the run; every handler is in    *)
(* every run.                                                              *)

\* validators.py checks these limits; no handler calls it
MAX_PET_NAME_LENGTH == 64
MAX_ENTRY_TEXT_LENGTH == 2000

Repeated(c, n) == [i \in 1..n |-> c]
MarkupName == <<"<", "b", ">">>
LongName == Repeated("a", MAX_PET_NAME_LENGTH + 1)
LongText == Repeated("a", MAX_ENTRY_TEXT_LENGTH + 1)
RexName == <<"R", "e", "x">>
LabName == <<"l", "a", "b">>
Note == <<"o", "k">>
Blank == <<" ">>
Hello == <<"h", "e", "l", "l", "o">>
F1 == "file-1"
F2 == "file-2"

InRangeDate == <<"2", "0", "2", "4", "-", "0", "6", "-", "0", "1">>
Pre1900Date == <<"1", "8", "9", "9", "-", "0", "1", "-", "0", "1">>
FutureDate == <<"2", "0", "3", "0", "-", "0", "1", "-", "0", "1">>
NoSuchDay == <<"2", "0", "2", "4", "-", "0", "2", "-", "3", "0">>
NotADate == <<"s", "o", "o", "n">>
LongId == <<"9", "9", "9", "9", "9", "9", "9", "9", "9", "9", "9", "9", "9", "9", "9", "9", "9", "9", "9", "9">>
LastDaysDate == <<"9", "9", "9", "9", "-", "1", "2", "-", "2", "5">>
HugeDelay == <<"9", "9", "9", "9", "9", "9", "9">>

Cmd(c) == TextMsg(<<"/">> \o c)
Texts(S) == {TextMsg(t) : t \in S}
Buttons(p, S) == {Callback(p \o x) : x \in S}

StartClock == DateTime(2025, 1, 1) + 1

\* Written by the add-pet wizard and pet:set_active
SeedUsers == <<[telegram_id |-> "alice", active_pet_id |-> Some(1)]>>
SeedPets == <<[user_id |-> 1, name |-> RexName, species |-> <<"d", "o", "g">>, breed |-> None]>>

\* Written by the add-entry wizard: a vaccination today, a medication whose
\* repeat is due today
SeedEntries ==
    <<[pet_id |-> 1, type |-> <<"v", "a", "c", "c", "i", "n", "e">>, date |-> DateTime(2025, 1, 1), text |-> Note],
      [pet_id |-> 1, type |-> <<"m", "e", "d", "s">>, date |-> DateTime(2024, 12, 22), text |-> Note]>>

\* Written by the attach wizard
SeedAttachments ==
    <<[entry_id |-> 1, kind |-> "photo", file_id |-> F1, file_unique_id |-> Some(F1)]>>

\* Two users, each with a pet and an entry of that pet
SharedUsers ==
    <<[telegram_id |-> "alice", active_pet_id |-> Some(1)],
      [telegram_id |-> "bob", active_pet_id |-> Some(2)]>>

SharedPets ==
    <<[user_id |-> 1, name |-> RexName, species |-> <<"d", "o", "g">>, breed |-> None],
      [user_id |-> 2, name |-> RexName, species |-> <<"c", "a", "t">>, breed |-> None]>>

SharedEntries ==
    <<[pet_id |-> 1, type |-> <<"v", "i", "s", "i", "t">>, date |-> DateTime(2025, 1, 1), text |-> Note],
      [pet_id |-> 2, type |-> <<"v", "i", "s", "i", "t">>, date |-> DateTime(2025, 1, 1), text |-> Note]>>

\* One user with two pets, the first of them active
TwoPets ==
    <<[user_id |-> 1, name |-> RexName, species |-> <<"d", "o", "g">>, breed |-> None],
      [user_id |-> 1, name |-> LabName, species |-> <<"c", "a", "t">>, breed |-> None]>>

AllStates == WizardStates \cup {NoState}

\* The prefixes of the payloads that end in the id of a row
IdPrefixes ==
    {P_pet, P_set_active, P_entry_view, P_entry_files, P_file_send,
     P_entry_attach, P_vrem_start, P_mrem_start}

\* What a user sends: the updates S while the conversation is in a state of sts
When(sts, S) == <<sts, S>>

Run(us, ps, es, as, alice, bob) ==
    [users |-> us, pets |-> ps, entries |-> es, attachments |-> as,
     inputs |-> [alice |-> alice, bob |-> bob]]

Runs ==
    [pets |->
        Run(<<>>, <<>>, <<>>, <<>>,
            {When(AllStates, {Cmd(start), Cmd(cancel), Callback(P_pets_add)}),
             When({NoState}, {TextMsg(MAIN_MENU_BUTTON_ENTRY)}),
             When({AddPetStates_name}, Texts({<<" ">> \o RexName, Blank})),
             When({AddPetStates_species}, Buttons(P_species, {<<"d", "o", "g">>, <<"b", "i", "r", "d">>})),
             When({AddPetStates_breed}, {Callback(P_breed_skip)})},
            {}),
     breed |->
        Run(<<>>, <<>>, <<>>, <<>>,
            {When(AllStates, {Cmd(cancel), Callback(P_pets_add)}),
             When({AddPetStates_name}, Texts({RexName})),
             When({AddPetStates_species}, Buttons(P_species, {<<"o", "t", "h", "e", "r">>, <<>>})),
             When({AddPetStates_breed},
                  {Callback(P_breed_skip), PhotoMsg(F1)}
                    \cup Texts({LabName \o <<" ">>, Blank}))},
            {}),
     active |->
        Run(SeedUsers, SeedPets, <<>>, <<>>,
            {When(AllStates, {Cmd(cancel), TextMsg(MAIN_MENU_BUTTON_ENTRY)}
                               \cup Buttons(P_set_active, {<<"1">>, <<"x">>}))},
            {When(AllStates, {Cmd(start), Callback(P_set_active \o <<"1">>)})}),
     entries |->
        Run(SeedUsers, SeedPets, <<>>, <<>>,
            {When(AllStates, {Cmd(cancel), TextMsg(MAIN_MENU_BUTTON_ENTRY)}),
             When({AddEntryStates_type},
                  {Callback(Join2(<<"e", "n", "t", "r", "y">>, <<"t", "y", "p", "e">>))}
                    \cup Buttons(P_entry_type, {<<"v", "a", "c", "c", "i", "n", "e">>, <<"b", "o", "g", "u", "s">>})),
             When({AddEntryStates_date_choice},
                  Buttons(P_entry_date, {<<"t", "o", "d", "a", "y">>, <<"y", "e", "s", "t", "e", "r", "d", "a", "y">>, <<"n", "e", "v", "e", "r">>})),
             When({AddEntryStates_text}, Texts({Note, Blank}))},
            {When(AllStates, {TextMsg(MAIN_MENU_BUTTON_ENTRY)})}),
     dates |->
        Run(SeedUsers, SeedPets, <<>>, <<>>,
            {When(AllStates, {Cmd(cancel), TextMsg(MAIN_MENU_BUTTON_ENTRY)}),
             When({AddEntryStates_type}, {Callback(P_entry_type \o <<"m", "e", "d", "s">>)}),
             When({AddEntryStates_date_choice}, {Callback(P_entry_date \o <<"c", "u", "s", "t", "o", "m">>)}),
             When({AddEntryStates_custom_date},
                  Texts({InRangeDate, Pre1900Date, FutureDate, NoSuchDay, NotADate})),
             When({AddEntryStates_text}, Texts({Note}))},
            {}),
     vaccines |->
        Run(SeedUsers, SeedPets, SeedEntries, <<>>,
            {When(AllStates, {Cmd(cancel), Callback(Join2(<<"v", "r", "e", "m">>, <<"s", "t", "a", "r", "t">>))}
                               \cup Buttons(P_vrem_start, {<<"1">>, <<"x">>})),
             When({VaccineReminderStates_choosing_vaccine},
                  {Callback(Join2(<<"v", "r", "e", "m">>, <<"v", "a", "c", "c", "i", "n", "e">>)), Callback(P_vrem_vaccine \o <<"r", "a", "b", "i", "e", "s">>)}),
             When({VaccineReminderStates_choosing_delay},
                  {Callback(Join2(<<"v", "r", "e", "m">>, <<"d", "e", "l", "a", "y">>))}
                    \cup Buttons(P_vrem_delay, {<<"c", "u", "s", "t", "o", "m">>, <<"x">>})),
             When({VaccineReminderStates_custom_delay},
                  Texts({<<"1">>, <<"0">>, <<"x">>, HugeDelay}))},
            {When(AllStates, {Callback(P_vrem_start \o <<"1">>)})}),
     forged |->
        Run(SeedUsers, SeedPets, SeedEntries, <<>>,
            {When(AllStates, {Callback(P_vrem_start \o <<"1">>)}),
             When({VaccineReminderStates_choosing_vaccine},
                  {Callback(P_vrem_vaccine \o <<"x", "y", "z">>)}),
             When({VaccineReminderStates_choosing_delay},
                  {Callback(P_vrem_delay \o <<"0">>)})},
            {}),
     dewormer |->
        Run(SeedUsers, SeedPets, SeedEntries, <<>>,
            {When(AllStates, {Cmd(cancel), Callback(Join2(<<"m", "r", "e", "m">>, <<"s", "t", "a", "r", "t">>))}
                               \cup Buttons(P_mrem_start, {<<"2">>, <<"x">>}))},
            {When(AllStates, {Callback(P_mrem_start \o <<"2">>)})}),
     lastdays |->
        Run(SeedUsers, SeedPets, <<>>, <<>>,
            {When({NoState}, {TextMsg(MAIN_MENU_BUTTON_ENTRY), Callback(P_mrem_start \o <<"1">>)}),
             When({AddEntryStates_type}, {Callback(P_entry_type \o <<"m", "e", "d", "s">>)}),
             When({AddEntryStates_date_choice}, {Callback(P_entry_date \o <<"c", "u", "s", "t", "o", "m">>)}),
             When({AddEntryStates_custom_date}, Texts({LastDaysDate})),
             When({AddEntryStates_text}, Texts({Note}))},
            {}),
     malformed |->
        Run(SeedUsers, SeedPets, SeedEntries, SeedAttachments,
            {When(AllStates,
                  {Callback(P_pets_add)}
                    \cup UNION {Buttons(p, {<<"1", ":", "1">>, <<"x">>, <<>>}) : p \in IdPrefixes}
                    \cup Buttons(P_summary_days, {<<"7", ":", "7">>})),
             When({NoState}, {TextMsg(MAIN_MENU_BUTTON_ENTRY)}),
             When({AddEntryStates_type}, Buttons(P_entry_type, {<<"m", "e", "d", "s", ":", "1">>}))},
            {}),
     menu |->
        Run(SeedUsers, SeedPets, SeedEntries, <<>>,
            {When({NoState}, {Callback(P_vrem_start \o <<"1">>)}),
             When({VaccineReminderStates_choosing_vaccine},
                  Buttons(P_vrem_vaccine, {<<"o", "t", "h", "e", "r">>, <<"x", ":", "y">>})),
             When({VaccineReminderStates_choosing_delay},
                  Buttons(P_vrem_delay, {<<"3", "0">>, <<"3", ":", "0">>}))},
            {}),
     restart |->
        Run(SeedUsers, SeedPets, SeedEntries, <<>>,
            {When({NoState},
                  Buttons(P_vrem_start, {<<"1">>, <<"2">>})
                    \cup {Callback(P_mrem_start \o <<"1">>)}),
             When({VaccineReminderStates_choosing_vaccine},
                  {Callback(P_vrem_vaccine \o <<"r", "a", "b", "i", "e", "s">>)}),
             When({VaccineReminderStates_choosing_delay},
                  {Callback(P_pets_add), Callback(P_entry_attach \o <<"2">>),
                   TextMsg(MAIN_MENU_BUTTON_ENTRY)}),
             When({AddEntryStates_type}, {Callback(P_vrem_start \o <<"1">>)})},
            {}),
     shortcut |->
        Run(SeedUsers, SeedPets, SeedEntries, <<>>,
            {When({NoState}, {Callback(P_vrem_start \o <<"1">>)}),
             When({VaccineReminderStates_choosing_vaccine},
                  {Callback(P_mrem_start \o <<"2">>)})},
            {}),
     markup |->
        Run(<<>>, <<>>, <<>>, <<>>,
            {When({NoState}, {Callback(P_pets_add)}),
             When({AddPetStates_name}, Texts({MarkupName, LongName})),
             When({AddPetStates_species}, {Callback(P_species \o <<"c", "a", "t">>)}),
             When({AddPetStates_breed}, {Callback(P_breed_skip)})},
            {}),
     longtext |->
        Run(SeedUsers, SeedPets, <<>>, <<>>,
            {When({NoState}, {TextMsg(MAIN_MENU_BUTTON_ENTRY)}),
             When({AddEntryStates_type}, {Callback(P_entry_type \o <<"o", "t", "h", "e", "r">>)}),
             When({AddEntryStates_date_choice}, {Callback(P_entry_date \o <<"t", "o", "d", "a", "y">>)}),
             When({AddEntryStates_text}, Texts({LongText}))},
            {}),
     lostcontext |->
        Run(SeedUsers, SeedPets, <<>>, <<>>,
            {When({AddEntryStates_text}, Texts({Note, Blank})),
             When({AddPetStates_breed}, {Callback(P_breed_skip)} \cup Texts({LabName}))},
            {}),
     files |->
        Run(SeedUsers, SeedPets, SeedEntries, <<>>,
            {When(AllStates, {Cmd(cancel)} \cup Buttons(P_entry_attach, {<<"1">>, <<"x">>})),
             When({AttachFilesStates_adding},
                  {Callback(P_attach_done), PhotoMsg(F1), DocumentMsg(F1),
                   DocumentMsg(F2), TextMsg(Hello)})},
            {When(AllStates, {Callback(P_entry_attach \o <<"1">>)})}),
     views |->
        Run(SeedUsers, SeedPets, SeedEntries, SeedAttachments,
            {When(AllStates,
                  {Cmd(help), Callback(P_pets_back), Callback(P_pets_list),
                   Callback(P_history_back), Callback(<<"n", "o", "o", "p">>)}
                    \cup Texts(MainMenuButtons)
                    \cup Buttons(P_pet, {<<"1">>, <<"x">>})
                    \cup Buttons(P_entry_view, {<<"1">>, <<"x">>, LongId})
                    \cup Buttons(P_entry_files, {<<"1">>, <<"2">>})
                    \cup Buttons(P_file_send, {<<"1">>, <<"x">>})
                    \cup Buttons(P_summary_days, {<<"7">>, <<"x">>}))},
            {When(AllStates,
                  {Cmd(start), Callback(P_pet \o <<"1">>),
                   Callback(P_entry_view \o <<"1">>),
                   Callback(P_entry_files \o <<"1">>),
                   Callback(P_file_send \o <<"1">>)})}),
     shared |->
        Run(SharedUsers, SharedPets, SharedEntries, <<>>,
            {When(AllStates, {Cmd(cancel), Callback(P_entry_attach \o <<"1">>)}),
             When({AttachFilesStates_adding}, {PhotoMsg(F1)})},
            {When(AllStates, Buttons(P_entry_attach, {<<"1">>, <<"2">>})),
             When({AttachFilesStates_adding}, {PhotoMsg(F1), Callback(P_attach_done)})}),
     switch |->
        Run(SeedUsers, TwoPets, <<>>, <<>>,
            {When({NoState}, {TextMsg(MAIN_MENU_BUTTON_ENTRY)}),
             When({AddEntryStates_type}, {Callback(P_entry_type \o <<"v", "i", "s", "i", "t">>)}),
             When({AddEntryStates_date_choice}, {Callback(P_entry_date \o <<"t", "o", "d", "a", "y">>)}),
             When({AddEntryStates_text},
                  {Callback(P_set_active \o <<"2">>), TextMsg(Note)})},
            {})]

\* Every update of every run, and the handler the router gives each in each
\* state
Sendable ==
    UNION {UNION {w[2] : w \in Runs[r].inputs[u]} :
               r \in DOMAIN Runs, u \in TelegramIds}

Routing == [st \in AllStates |-> [e \in Sendable |-> Route(e, st)]]

\* The updates user u may send now
Inputs(u) ==
    UNION {w[2] : w \in {x \in Runs[run].inputs[u] : fsm[u].state \in x[1]}}

-----------------------------------------------------------------------------
(* Initial state *)

\* Before the first update
NoMessage == [kind |-> "none", body |-> <<>>, file |-> None]

NoUpdate == [user |-> "nobody", handler |-> "none", from |-> NoState, reply |-> "none"]

Asleep == [pc |-> "sleep", now |-> 0, rows |-> <<>>, marked |-> {}]

Init ==
    /\ run \in DOMAIN Runs
    /\ clock = StartClock
    /\ users = Runs[run].users
    /\ pets = Runs[run].pets
    /\ entries = Runs[run].entries
    /\ attachments = Runs[run].attachments
    /\ reminders = <<>>
    /\ fsm = [u \in TelegramIds |-> Cleared]
    /\ worker = Asleep
    /\ update = NoMessage
    /\ deliveries = <<>>
    /\ last = NoUpdate

-----------------------------------------------------------------------------
(* Handlers.  Each is called by the dispatcher (Next, below) for an       *)
(* update e of user u that the router gives it.  Reply(u, h, r): handler  *)
(* h answered r to user u.                                                *)

Reply(u, h, r) ==
    last' = [user |-> u, handler |-> h, from |-> fsm[u].state, reply |-> r]

Background == UNCHANGED <<run, clock, worker, deliveries>>

SameStore == UNCHANGED <<users, pets, entries, attachments, reminders>>

cmd_start(u, e) ==
    /\ users' = EnsuredUsers(u)
    /\ Reply(u, "cmd_start", "welcome")
    /\ UNCHANGED <<pets, entries, attachments, reminders, fsm>>
    /\ Background

cmd_help(u, e) ==
    /\ Reply(u, "cmd_help", "help")
    /\ UNCHANGED fsm /\ SameStore /\ Background

\* Faulty variant of cmd_cancel: it looks the user up first, as the menu
\* handlers do, and so creates the row of a user it has not seen
cmd_cancel_ensure_user(u, e) ==
    /\ users' = EnsuredUsers(u)
    /\ IF fsm[u].state = NoState
       THEN /\ Reply(u, "cmd_cancel", "no_active_action")
            /\ UNCHANGED fsm
       ELSE /\ fsm' = [fsm EXCEPT ![u] = Cleared]
            /\ Reply(u, "cmd_cancel", "cancelled")
    /\ UNCHANGED <<pets, entries, attachments, reminders>> /\ Background

cmd_cancel(u, e) ==
    /\ IF fsm[u].state = NoState
       THEN /\ Reply(u, "cmd_cancel", "no_active_action")
            /\ UNCHANGED fsm
       ELSE /\ fsm' = [fsm EXCEPT ![u] = Cleared]
            /\ Reply(u, "cmd_cancel", "cancelled")
    /\ SameStore /\ Background

\* Faulty variant of start_entry_flow: the wizard opens whether or not the
\* user has an active pet
start_entry_flow_no_check(u) ==
    /\ users' = EnsuredUsers(u)
    /\ fsm' = [fsm EXCEPT ![u] = set_state(@, AddEntryStates_type)]
    /\ Reply(u, "handle_main_menu", "choose_type")

\* start_entry_flow, for the user row as ensured
start_entry_flow(u) ==
    /\ users' = EnsuredUsers(u)
    /\ IF ~TruthyInt(users'[EnsuredUserId(u)].active_pet_id)
       THEN /\ Reply(u, "handle_main_menu", "choose_pet_first")
            /\ UNCHANGED fsm
       ELSE /\ fsm' = [fsm EXCEPT ![u] = set_state(@, AddEntryStates_type)]
            /\ Reply(u, "handle_main_menu", "choose_type")

handle_main_menu(u, e) ==
    /\ LET text == IF e.kind = "text" THEN e.body ELSE <<>>
       IN  CASE text = MAIN_MENU_BUTTON_PETS ->
                    /\ users' = EnsuredUsers(u)
                    /\ Reply(u, "handle_main_menu", "pets_menu")
                    /\ UNCHANGED fsm
             [] text = MAIN_MENU_BUTTON_ENTRY -> start_entry_flow(u)
             [] text = MAIN_MENU_BUTTON_HISTORY ->
                    /\ users' = EnsuredUsers(u)
                    /\ Reply(u, "handle_main_menu", "history")
                    /\ UNCHANGED fsm
             [] text = MAIN_MENU_BUTTON_SUMMARY ->
                    /\ Reply(u, "handle_main_menu", "summary_menu")
                    /\ UNCHANGED <<users, fsm>>
             [] text = MAIN_MENU_BUTTON_SETTINGS ->
                    /\ Reply(u, "handle_main_menu", "settings")
                    /\ UNCHANGED <<users, fsm>>
             [] OTHER ->
                    /\ Reply(u, "handle_main_menu", "unrecognized")
                    /\ UNCHANGED <<users, fsm>>
    /\ UNCHANGED <<pets, entries, attachments, reminders>>
    /\ Background

\* An update no registered handler accepts
unhandled(u, e) ==
    /\ Reply(u, UNHANDLED, "none")
    /\ UNCHANGED fsm /\ SameStore /\ Background

-----------------------------------------------------------------------------
(* Section "Pets": the pet list, the pet card, the active pet *)

pets_back_callback(u, e) ==
    /\ Reply(u, "pets_back_callback", "main_menu")
    /\ UNCHANGED fsm /\ SameStore /\ Background

pets_list_callback(u, e) ==
    /\ users' = EnsuredUsers(u)
    /\ Reply(u, "pets_list_callback", "pets_menu")
    /\ UNCHANGED <<pets, entries, attachments, reminders, fsm>>
    /\ Background

\* Faulty variant: int(raw_id) outside a try, the ValueError leaves the
\* handler
pet_card_callback_unguarded(u, e) ==
    /\ LET pet_id == int(partition_tail(e.body, Colon))
       IN  Reply(u, "pet_card_callback",
                 IF pet_id = None THEN "raised"
                 ELSE IF UserIdOf(u) = 0 THEN "use_start"
                 ELSE IF ~Bindable(The(pet_id)) THEN "raised"
                 ELSE IF ~OwnedPet(The(pet_id), UserIdOf(u)) THEN "not_found"
                 ELSE "pet_card")
    /\ UNCHANGED fsm /\ SameStore /\ Background

pet_card_callback(u, e) ==
    /\ LET pet_id == int(partition_tail(e.body, Colon))
       IN  Reply(u, "pet_card_callback",
                 IF pet_id = None THEN "bad_id"
                 ELSE IF UserIdOf(u) = 0 THEN "use_start"
                 ELSE IF ~Bindable(The(pet_id)) THEN "raised"
                 ELSE IF ~OwnedPet(The(pet_id), UserIdOf(u)) THEN "not_found"
                 ELSE "pet_card")
    /\ UNCHANGED fsm /\ SameStore /\ Background

\* Faulty variant: the Pet is looked up by id alone, whoever owns it
pet_set_active_callback_any_owner(u, e) ==
    /\ LET parts == split(e.body, Colon)
           pet_id == int(parts[3])
       IN  IF Len(parts) # 3
           THEN Reply(u, "pet_set_active_callback", "invalid_data") /\ UNCHANGED users
           ELSE IF pet_id = None
           THEN Reply(u, "pet_set_active_callback", "bad_id") /\ UNCHANGED users
           ELSE IF UserIdOf(u) = 0
           THEN Reply(u, "pet_set_active_callback", "use_start") /\ UNCHANGED users
           ELSE IF The(pet_id) \notin DOMAIN pets
           THEN Reply(u, "pet_set_active_callback", "not_found") /\ UNCHANGED users
           ELSE /\ users' = [users EXCEPT ![UserIdOf(u)].active_pet_id = pet_id]
                /\ Reply(u, "pet_set_active_callback", "made_active")
    /\ UNCHANGED <<pets, entries, attachments, reminders, fsm>>
    /\ Background

pet_set_active_callback(u, e) ==
    /\ LET parts == split(e.body, Colon)
           pet_id == int(parts[3])
       IN  IF Len(parts) # 3
           THEN Reply(u, "pet_set_active_callback", "invalid_data") /\ UNCHANGED users
           ELSE IF pet_id = None
           THEN Reply(u, "pet_set_active_callback", "bad_id") /\ UNCHANGED users
           ELSE IF UserIdOf(u) = 0
           THEN Reply(u, "pet_set_active_callback", "use_start") /\ UNCHANGED users
           ELSE IF ~Bindable(The(pet_id))
           THEN Reply(u, "pet_set_active_callback", "raised") /\ UNCHANGED users
           ELSE IF ~OwnedPet(The(pet_id), UserIdOf(u))
           THEN Reply(u, "pet_set_active_callback", "not_found") /\ UNCHANGED users
           ELSE /\ users' = [users EXCEPT ![UserIdOf(u)].active_pet_id = pet_id]
                /\ Reply(u, "pet_set_active_callback", "made_active")
    /\ UNCHANGED <<pets, entries, attachments, reminders, fsm>>
    /\ Background

-----------------------------------------------------------------------------
(* Wizard "add pet": name -> species -> breed -> the Pet row *)

pets_add_start(u, e) ==
    /\ fsm' = [fsm EXCEPT ![u] = set_state(@, AddPetStates_name)]
    /\ Reply(u, "pets_add_start", "ask_name")
    /\ SameStore /\ Background

pets_add_name(u, e) ==
    /\ LET name == strip(e.body)
       IN  IF name = <<>>
           THEN Reply(u, "pets_add_name", "reprompt") /\ UNCHANGED fsm
           ELSE /\ fsm' = [fsm EXCEPT ![u] =
                       set_state(update_data(@, [name |-> Some(name)]),
                                 AddPetStates_species)]
                /\ Reply(u, "pets_add_name", "ask_species")
    /\ SameStore /\ Background

pets_add_species(u, e) ==
    /\ LET species == partition_tail(e.body, Colon)
       IN  IF species \notin PetSpecies
           THEN Reply(u, "pets_add_species", "reprompt") /\ UNCHANGED fsm
           ELSE /\ fsm' = [fsm EXCEPT ![u] =
                       set_state(update_data(@, [species |-> Some(species)]),
                                 AddPetStates_breed)]
                /\ Reply(u, "pets_add_species", "ask_breed")
    /\ SameStore /\ Background

\* finalize_pet_creation, started from the slot f the caller has updated
\* Faulty variant of finalize_pet_creation: the pet is given the id of the
\* user row found, and no row is made for a user who has none
finalize_pet_creation_no_user(u, h, f) ==
    LET name == Get(f.data, "name")
        species == Get(f.data, "species")
        breed == Get(f.data, "breed")
    IN  IF ~TruthyStr(name) \/ ~TruthyStr(species)
        THEN /\ fsm' = [fsm EXCEPT ![u] = Cleared]
             /\ Reply(u, h, "failed_restart")
             /\ UNCHANGED <<users, pets>>
        ELSE /\ Len(pets) < MaxPets
             /\ UNCHANGED users
             /\ pets' = Append(pets, [user_id |-> UserIdOf(u),
                                      name |-> The(name),
                                      species |-> The(species),
                                      breed |-> breed])
             /\ fsm' = [fsm EXCEPT ![u] = Cleared]
             /\ Reply(u, h, "pet_created")

finalize_pet_creation(u, h, f) ==
    LET name == Get(f.data, "name")
        species == Get(f.data, "species")
        breed == Get(f.data, "breed")
    IN  IF ~TruthyStr(name) \/ ~TruthyStr(species)
        THEN /\ fsm' = [fsm EXCEPT ![u] = Cleared]
             /\ Reply(u, h, "failed_restart")
             /\ UNCHANGED <<users, pets>>
        ELSE /\ Len(pets) < MaxPets
             /\ users' = EnsuredUsers(u)
             /\ pets' = Append(pets, [user_id |-> EnsuredUserId(u),
                                      name |-> The(name),
                                      species |-> The(species),
                                      breed |-> breed])
             /\ fsm' = [fsm EXCEPT ![u] = Cleared]
             /\ Reply(u, h, "pet_created")

pets_add_breed_skip(u, e) ==
    /\ finalize_pet_creation(u, "pets_add_breed_skip",
                             update_data(fsm[u], [breed |-> None]))
    /\ UNCHANGED <<entries, attachments, reminders>>
    /\ Background

pets_add_breed(u, e) ==
    /\ LET breed == strip(e.body)
       IN  IF breed = <<>>
           THEN /\ Reply(u, "pets_add_breed", "reprompt")
                /\ UNCHANGED <<fsm, users, pets>>
           ELSE finalize_pet_creation(u, "pets_add_breed",
                    update_data(fsm[u], [breed |-> Some(breed)]))
    /\ UNCHANGED <<entries, attachments, reminders>>
    /\ Background

-----------------------------------------------------------------------------
(* Wizard "add entry": type -> date_choice -> [custom_date] -> text *)

entry_type_callback(u, e) ==
    /\ LET parts == split(e.body, Colon)
       IN  IF Len(parts) # 3
           THEN Reply(u, "entry_type_callback", "invalid_data") /\ UNCHANGED fsm
           ELSE IF parts[3] \notin EntryType
           THEN Reply(u, "entry_type_callback", "reprompt") /\ UNCHANGED fsm
           ELSE /\ fsm' = [fsm EXCEPT ![u] =
                       set_state(update_data(@, [entry_type |-> Some(parts[3])]),
                                 AddEntryStates_date_choice)]
                /\ Reply(u, "entry_type_callback", "ask_date")
    /\ SameStore /\ Background

\* Faulty variant: "yesterday" stores the date of today
entry_date_callback_no_yesterday(u, e) ==
    /\ LET parts == split(e.body, Colon)
           now == clock
           ask_text(chosen_date) ==
               /\ fsm' = [fsm EXCEPT ![u] =
                      set_state(update_data(@, [date |-> Some(isoformat(chosen_date))]),
                                AddEntryStates_text)]
               /\ Reply(u, "entry_date_callback", "ask_text")
       IN  IF Len(parts) # 3
           THEN Reply(u, "entry_date_callback", "invalid_data") /\ UNCHANGED fsm
           ELSE IF parts[3] = <<"t", "o", "d", "a", "y">> THEN ask_text(DateOf(now))
           ELSE IF parts[3] = <<"y", "e", "s", "t", "e", "r", "d", "a", "y">> THEN ask_text(DateOf(now))
           ELSE IF parts[3] = <<"c", "u", "s", "t", "o", "m">>
           THEN /\ fsm' = [fsm EXCEPT ![u] = set_state(@, AddEntryStates_custom_date)]
                /\ Reply(u, "entry_date_callback", "ask_custom_date")
           ELSE Reply(u, "entry_date_callback", "reprompt") /\ UNCHANGED fsm
    /\ SameStore /\ Background

entry_date_callback(u, e) ==
    /\ LET parts == split(e.body, Colon)
           now == clock
           ask_text(chosen_date) ==
               /\ fsm' = [fsm EXCEPT ![u] =
                      set_state(update_data(@, [date |-> Some(isoformat(chosen_date))]),
                                AddEntryStates_text)]
               /\ Reply(u, "entry_date_callback", "ask_text")
       IN  IF Len(parts) # 3
           THEN Reply(u, "entry_date_callback", "invalid_data") /\ UNCHANGED fsm
           ELSE IF parts[3] = <<"t", "o", "d", "a", "y">> THEN ask_text(DateOf(now))
           ELSE IF parts[3] = <<"y", "e", "s", "t", "e", "r", "d", "a", "y">> THEN ask_text(DateOf(PlusDays(now, 0 - 1)))
           ELSE IF parts[3] = <<"c", "u", "s", "t", "o", "m">>
           THEN /\ fsm' = [fsm EXCEPT ![u] = set_state(@, AddEntryStates_custom_date)]
                /\ Reply(u, "entry_date_callback", "ask_custom_date")
           ELSE Reply(u, "entry_date_callback", "reprompt") /\ UNCHANGED fsm
    /\ SameStore /\ Background

\* Faulty variant of entry_custom_date_message: the except branch answers and
\* does not return, so the step goes on to the text without a date
entry_custom_date_message_no_return(u, e) ==
    /\ LET text == strip(e.body)
           dt == strptime(text)
       IN  IF dt = None
           THEN /\ fsm' = [fsm EXCEPT ![u] = set_state(@, AddEntryStates_text)]
                /\ Reply(u, "entry_custom_date_message", "reprompt")
           ELSE LET chosen_date == DateTime(The(dt).year, The(dt).month, The(dt).day)
                IN  /\ fsm' = [fsm EXCEPT ![u] =
                           set_state(update_data(@, [date |-> Some(isoformat(chosen_date))]),
                                     AddEntryStates_text)]
                    /\ Reply(u, "entry_custom_date_message", "ask_text")
    /\ SameStore /\ Background

entry_custom_date_message(u, e) ==
    /\ LET text == strip(e.body)
           dt == strptime(text)
       IN  IF dt = None
           THEN Reply(u, "entry_custom_date_message", "reprompt") /\ UNCHANGED fsm
           ELSE LET chosen_date == DateTime(The(dt).year, The(dt).month, The(dt).day)
                IN  /\ fsm' = [fsm EXCEPT ![u] =
                           set_state(update_data(@, [date |-> Some(isoformat(chosen_date))]),
                                     AddEntryStates_text)]
                    /\ Reply(u, "entry_custom_date_message", "ask_text")
    /\ SameStore /\ Background

\* Faulty variant: without the entry type or the date the step answers and
\* leaves the conversation open
entry_text_message_keeps_state(u, e) ==
    /\ LET text == strip(e.body)
           entry_type == Get(fsm[u].data, "entry_type")
           raw_date == Get(fsm[u].data, "date")
           date == fromisoformat(The(raw_date))
           uid == EnsuredUserId(u)
           active == users'[uid].active_pet_id
           give_up(r) == /\ fsm' = [fsm EXCEPT ![u] = Cleared]
                         /\ Reply(u, "entry_text_message", r)
                         /\ UNCHANGED entries
       IN  IF text = <<>>
           THEN /\ Reply(u, "entry_text_message", "reprompt")
                /\ UNCHANGED <<fsm, users, entries>>
           ELSE IF ~TruthyStr(entry_type) \/ ~TruthyStr(raw_date)
           THEN /\ Reply(u, "entry_text_message", "failed_restart")
                /\ UNCHANGED <<fsm, users, entries>>
           ELSE IF date = None
           THEN give_up("date_damaged") /\ UNCHANGED users
           ELSE /\ users' = EnsuredUsers(u)
                /\ IF ~TruthyInt(active) THEN give_up("no_active_pet")
                   ELSE IF The(active) \notin DOMAIN pets THEN give_up("pet_missing")
                   ELSE /\ Len(entries) < MaxEntries
                        /\ entries' = Append(entries, [pet_id |-> The(active),
                                                       type |-> The(entry_type),
                                                       date |-> The(date),
                                                       text |-> text])
                        /\ fsm' = [fsm EXCEPT ![u] = Cleared]
                        /\ Reply(u, "entry_text_message", "entry_saved")
    /\ UNCHANGED <<pets, attachments, reminders>>
    /\ Background

\* Faulty variant: the Entry goes to the first Pet of the user
entry_text_message_first_pet(u, e) ==
    /\ LET text == strip(e.body)
           entry_type == Get(fsm[u].data, "entry_type")
           raw_date == Get(fsm[u].data, "date")
           date == fromisoformat(The(raw_date))
           uid == EnsuredUserId(u)
           active == users'[uid].active_pet_id
           first == Min({p \in DOMAIN pets : pets[p].user_id = uid})
           give_up(r) == /\ fsm' = [fsm EXCEPT ![u] = Cleared]
                         /\ Reply(u, "entry_text_message", r)
                         /\ UNCHANGED entries
       IN  IF text = <<>>
           THEN /\ Reply(u, "entry_text_message", "reprompt")
                /\ UNCHANGED <<fsm, users, entries>>
           ELSE IF ~TruthyStr(entry_type) \/ ~TruthyStr(raw_date)
           THEN give_up("failed_restart") /\ UNCHANGED users
           ELSE IF date = None
           THEN give_up("date_damaged") /\ UNCHANGED users
           ELSE /\ users' = EnsuredUsers(u)
                /\ IF ~TruthyInt(active) THEN give_up("no_active_pet")
                   ELSE IF The(active) \notin DOMAIN pets THEN give_up("pet_missing")
                   ELSE /\ Len(entries) < MaxEntries
                        /\ entries' = Append(entries, [pet_id |-> first,
                                                       type |-> The(entry_type),
                                                       date |-> The(date),
                                                       text |-> text])
                        /\ fsm' = [fsm EXCEPT ![u] = Cleared]
                        /\ Reply(u, "entry_text_message", "entry_saved")
    /\ UNCHANGED <<pets, attachments, reminders>>
    /\ Background

entry_text_message(u, e) ==
    /\ LET text == strip(e.body)
           entry_type == Get(fsm[u].data, "entry_type")
           raw_date == Get(fsm[u].data, "date")
           date == fromisoformat(The(raw_date))
           uid == EnsuredUserId(u)
           active == users'[uid].active_pet_id
           give_up(r) == /\ fsm' = [fsm EXCEPT ![u] = Cleared]
                         /\ Reply(u, "entry_text_message", r)
                         /\ UNCHANGED entries
       IN  IF text = <<>>
           THEN /\ Reply(u, "entry_text_message", "reprompt")
                /\ UNCHANGED <<fsm, users, entries>>
           ELSE IF ~TruthyStr(entry_type) \/ ~TruthyStr(raw_date)
           THEN give_up("failed_restart") /\ UNCHANGED users
           ELSE IF date = None
           THEN give_up("date_damaged") /\ UNCHANGED users
           ELSE /\ users' = EnsuredUsers(u)
                /\ IF ~TruthyInt(active) THEN give_up("no_active_pet")
                   ELSE IF The(active) \notin DOMAIN pets THEN give_up("pet_missing")
                   ELSE /\ Len(entries) < MaxEntries
                        /\ entries' = Append(entries, [pet_id |-> The(active),
                                                       type |-> The(entry_type),
                                                       date |-> The(date),
                                                       text |-> text])
                        /\ fsm' = [fsm EXCEPT ![u] = Cleared]
                        /\ Reply(u, "entry_text_message", "entry_saved")
    /\ UNCHANGED <<pets, attachments, reminders>>
    /\ Background

-----------------------------------------------------------------------------
(* Wizard "vaccine reminder": choosing_vaccine -> choosing_delay ->        *)
(* [custom_delay] -> the Reminder row                                      *)

NewReminder(uid, pet_id, entry_id, title, due_at) ==
    [user_id |-> uid, pet_id |-> pet_id, entry_id |-> entry_id,
     title |-> title, due_at |-> due_at, is_done |-> FALSE,
     last_sent_at |-> None]

vaccine_reminder_start(u, e) ==
    /\ LET parts == split(e.body, Colon)
           entry_id == int(parts[3])
           pet_id == entries[The(entry_id)].pet_id
           deny(r) == Reply(u, "vaccine_reminder_start", r) /\ UNCHANGED fsm
       IN  IF Len(parts) # 3 THEN deny("invalid_data")
           ELSE IF entry_id = None THEN deny("bad_id")
           ELSE IF UserIdOf(u) = 0 THEN deny("use_start")
           ELSE IF ~Bindable(The(entry_id)) THEN deny("raised")
           ELSE IF ~OwnedEntry(The(entry_id), UserIdOf(u)) THEN deny("not_found")
           ELSE /\ fsm' = [fsm EXCEPT ![u] =
                       update_data(
                           set_state(@, VaccineReminderStates_choosing_vaccine),
                           [entry_id |-> entry_id,
                            pet_id |-> Some(pet_id),
                            pet_name |-> Some(pets[pet_id].name),
                            species |-> Some(pets[pet_id].species)])]
                /\ Reply(u, "vaccine_reminder_start", "ask_vaccine")
    /\ SameStore /\ Background

vaccine_choose_vaccine(u, e) ==
    /\ LET parts == split(e.body, Colon)
       IN  IF Len(parts) # 3
           THEN Reply(u, "vaccine_choose_vaccine", "invalid_data") /\ UNCHANGED fsm
           ELSE /\ fsm' = [fsm EXCEPT ![u] =
                       set_state(
                           update_data(@, [reminder_title |-> Some(title_map(parts[3]))]),
                           VaccineReminderStates_choosing_delay)]
                /\ Reply(u, "vaccine_choose_vaccine", "ask_delay")
    /\ SameStore /\ Background

\* _create_vaccine_reminder.  utcnow() + timedelta(days) raises OverflowError
\* when the sum is past datetime.max, before anything is read or written.
\* Reminder.pet_id is NOT NULL: without a pet id in the bag the INSERT raises
\* and the handler ends there.
create_vaccine_reminder(u, h, days) ==
    LET data == fsm[u].data
        entry_id == Get(data, "entry_id")
        pet_id == Get(data, "pet_id")
        title == IF "reminder_title" \in DOMAIN data
                 THEN The(data["reminder_title"]) ELSE title_map(<<>>)
        due_at == PlusDays(clock, days)
    IN  IF ~Representable(due_at)
        THEN /\ Reply(u, h, "raised")
             /\ UNCHANGED <<users, reminders, deliveries, fsm>>
        ELSE /\ users' = EnsuredUsers(u)
             /\ IF pet_id = None
                THEN /\ Reply(u, h, "error")
                     /\ UNCHANGED <<reminders, deliveries, fsm>>
                ELSE /\ Len(reminders) < MaxReminders
                     /\ reminders' = Append(reminders,
                            NewReminder(EnsuredUserId(u), The(pet_id), entry_id, title, due_at))
                     /\ deliveries' = Append(deliveries, <<>>)
                     /\ fsm' = [fsm EXCEPT ![u] = Cleared]
                     /\ Reply(u, h, "reminder_created")

vaccine_choose_delay(u, e) ==
    /\ LET parts == split(e.body, Colon)
           days == int(parts[3])
           deny(r) == /\ Reply(u, "vaccine_choose_delay", r)
                      /\ UNCHANGED <<fsm, users, reminders, deliveries>>
       IN  IF Len(parts) # 3 THEN deny("invalid_data")
           ELSE IF parts[3] = <<"c", "u", "s", "t", "o", "m">>
           THEN /\ fsm' = [fsm EXCEPT ![u] =
                       set_state(@, VaccineReminderStates_custom_delay)]
                /\ Reply(u, "vaccine_choose_delay", "ask_days")
                /\ UNCHANGED <<users, reminders, deliveries>>
           ELSE IF days = None THEN deny("reprompt")
           ELSE create_vaccine_reminder(u, "vaccine_choose_delay", The(days))
    /\ UNCHANGED <<pets, entries, attachments, run, clock, worker>>

vaccine_custom_delay_message(u, e) ==
    /\ LET days == int(strip(e.body))
           deny(r) == /\ Reply(u, "vaccine_custom_delay_message", r)
                      /\ UNCHANGED <<fsm, users, reminders, deliveries>>
       IN  IF days = None THEN deny("reprompt")
           ELSE IF The(days) <= 0 THEN deny("reprompt")
           ELSE create_vaccine_reminder(u, "vaccine_custom_delay_message", The(days))
    /\ UNCHANGED <<pets, entries, attachments, run, clock, worker>>

-----------------------------------------------------------------------------
(* The medication shortcut: one step, a Reminder ten days after the entry *)

\* Faulty variant: the shortcut ends with state.clear(), as the last step of
\* a wizard does
meds_dewormer_reminder_start_clears(u, e) ==
    /\ LET parts == split(e.body, Colon)
           entry_id == int(parts[3])
           entry == entries[The(entry_id)]
           deny(r) == /\ Reply(u, "meds_dewormer_reminder_start", r)
                      /\ UNCHANGED <<reminders, deliveries, fsm>>
       IN  IF Len(parts) # 3 THEN deny("invalid_data")
           ELSE IF entry_id = None THEN deny("bad_id")
           ELSE IF UserIdOf(u) = 0 THEN deny("use_start")
           ELSE IF ~Bindable(The(entry_id)) THEN deny("raised")
           ELSE IF ~OwnedEntry(The(entry_id), UserIdOf(u)) THEN deny("not_found")
           ELSE /\ Len(reminders) < MaxReminders
                /\ reminders' = Append(reminders,
                       NewReminder(UserIdOf(u), entry.pet_id, entry_id,
                                   DEWORMER_TITLE, PlusDays(entry.date, 10)))
                /\ deliveries' = Append(deliveries, <<>>)
                /\ fsm' = [fsm EXCEPT ![u] = Cleared]
                /\ Reply(u, "meds_dewormer_reminder_start", "reminder_created")
    /\ UNCHANGED <<users, pets, entries, attachments, run, clock, worker>>

DEWORMER_REPEAT_DAYS == 10

meds_dewormer_reminder_start(u, e) ==
    /\ LET parts == split(e.body, Colon)
           entry_id == int(parts[3])
           entry == entries[The(entry_id)]
           deny(r) == /\ Reply(u, "meds_dewormer_reminder_start", r)
                      /\ UNCHANGED <<reminders, deliveries>>
       IN  IF Len(parts) # 3 THEN deny("invalid_data")
           ELSE IF entry_id = None THEN deny("bad_id")
           ELSE IF UserIdOf(u) = 0 THEN deny("use_start")
           ELSE IF ~Bindable(The(entry_id)) THEN deny("raised")
           ELSE IF ~OwnedEntry(The(entry_id), UserIdOf(u)) THEN deny("not_found")
           ELSE IF ~Representable(PlusDays(entry.date, DEWORMER_REPEAT_DAYS))
           THEN deny("raised")
           ELSE /\ Len(reminders) < MaxReminders
                /\ reminders' = Append(reminders,
                       NewReminder(UserIdOf(u), entry.pet_id, entry_id,
                                   DEWORMER_TITLE,
                                   PlusDays(entry.date, DEWORMER_REPEAT_DAYS)))
                /\ deliveries' = Append(deliveries, <<>>)
                /\ Reply(u, "meds_dewormer_reminder_start", "reminder_created")
    /\ UNCHANGED <<users, pets, entries, attachments, fsm, run, clock, worker>>

-----------------------------------------------------------------------------
(* Wizard "attach files": the single state adding *)

\* Faulty variant: the step sets the state and leaves the bag as it is
entry_attach_start_no_bag(u, e) ==
    /\ LET parts == split(e.body, Colon)
           entry_id == int(parts[3])
           deny(r) == Reply(u, "entry_attach_start", r) /\ UNCHANGED fsm
       IN  IF Len(parts) # 3 THEN deny("invalid_data")
           ELSE IF entry_id = None THEN deny("bad_id")
           ELSE IF UserIdOf(u) = 0 THEN deny("use_start")
           ELSE IF ~Bindable(The(entry_id)) THEN deny("raised")
           ELSE IF ~OwnedEntry(The(entry_id), UserIdOf(u)) THEN deny("not_found")
           ELSE /\ fsm' = [fsm EXCEPT ![u] = set_state(@, AttachFilesStates_adding)]
                /\ Reply(u, "entry_attach_start", "send_files")
    /\ SameStore /\ Background

\* Faulty variant: the step looks the entry up by its id alone
entry_attach_start_any_owner(u, e) ==
    /\ LET parts == split(e.body, Colon)
           entry_id == int(parts[3])
           deny(r) == Reply(u, "entry_attach_start", r) /\ UNCHANGED fsm
       IN  IF Len(parts) # 3 THEN deny("invalid_data")
           ELSE IF entry_id = None THEN deny("bad_id")
           ELSE IF UserIdOf(u) = 0 THEN deny("use_start")
           ELSE IF ~Bindable(The(entry_id)) THEN deny("raised")
           ELSE IF The(entry_id) \notin DOMAIN entries THEN deny("not_found")
           ELSE /\ fsm' = [fsm EXCEPT ![u] =
                       update_data(set_state(@, AttachFilesStates_adding),
                                   [entry_id |-> entry_id])]
                /\ Reply(u, "entry_attach_start", "send_files")
    /\ SameStore /\ Background

entry_attach_start(u, e) ==
    /\ LET parts == split(e.body, Colon)
           entry_id == int(parts[3])
           deny(r) == Reply(u, "entry_attach_start", r) /\ UNCHANGED fsm
       IN  IF Len(parts) # 3 THEN deny("invalid_data")
           ELSE IF entry_id = None THEN deny("bad_id")
           ELSE IF UserIdOf(u) = 0 THEN deny("use_start")
           ELSE IF ~Bindable(The(entry_id)) THEN deny("raised")
           ELSE IF ~OwnedEntry(The(entry_id), UserIdOf(u)) THEN deny("not_found")
           ELSE /\ fsm' = [fsm EXCEPT ![u] =
                       update_data(set_state(@, AttachFilesStates_adding),
                                   [entry_id |-> entry_id])]
                /\ Reply(u, "entry_attach_start", "send_files")
    /\ SameStore /\ Background

\* Faulty variant: a table without the UNIQUE constraint on file_unique_id
attach_not_unique(u, e, h, kind) ==
    LET entry_id == Get(fsm[u].data, "entry_id")
    IN  IF ~TruthyInt(entry_id)
        THEN Reply(u, h, "none") /\ UNCHANGED attachments
        ELSE /\ Len(attachments) < MaxAttachments
             /\ attachments' = Append(attachments,
                    [entry_id |-> The(entry_id), kind |-> kind,
                     file_id |-> The(e.file), file_unique_id |-> e.file])
             /\ Reply(u, h, "attached")

\* session.add(Attachment(...)); commit.  file_unique_id is UNIQUE: a second
\* row with a stored fingerprint makes the INSERT raise.
attach(u, e, h, kind) ==
    LET entry_id == Get(fsm[u].data, "entry_id")
    IN  IF ~TruthyInt(entry_id)
        THEN Reply(u, h, "none") /\ UNCHANGED attachments
        ELSE IF \E a \in DOMAIN attachments : attachments[a].file_unique_id = e.file
        THEN Reply(u, h, "error") /\ UNCHANGED attachments
        ELSE /\ Len(attachments) < MaxAttachments
             /\ attachments' = Append(attachments,
                    [entry_id |-> The(entry_id), kind |-> kind,
                     file_id |-> The(e.file), file_unique_id |-> e.file])
             /\ Reply(u, h, "attached")

entry_attach_photo(u, e) ==
    /\ attach(u, e, "entry_attach_photo", "photo")
    /\ UNCHANGED <<users, pets, entries, reminders, fsm>>
    /\ Background

entry_attach_document(u, e) ==
    /\ attach(u, e, "entry_attach_document", "document")
    /\ UNCHANGED <<users, pets, entries, reminders, fsm>>
    /\ Background

entry_attach_done(u, e) ==
    /\ fsm' = [fsm EXCEPT ![u] = Cleared]
    /\ Reply(u, "entry_attach_done", "attach_finished")
    /\ SameStore /\ Background

-----------------------------------------------------------------------------
(* History, files and summary: read-only views *)

entry_view_callback(u, e) ==
    /\ LET parts == split(e.body, Colon)
           entry_id == int(parts[3])
       IN  Reply(u, "entry_view_callback",
                 IF Len(parts) # 3 THEN "invalid_data"
                 ELSE IF entry_id = None THEN "bad_id"
                 ELSE IF UserIdOf(u) = 0 THEN "use_start"
                 ELSE IF ~Bindable(The(entry_id)) THEN "raised"
                 ELSE IF ~OwnedEntry(The(entry_id), UserIdOf(u)) THEN "not_found"
                 ELSE "entry_card")
    /\ UNCHANGED fsm /\ SameStore /\ Background

entry_files_callback(u, e) ==
    /\ LET parts == split(e.body, Colon)
           entry_id == int(parts[3])
           files == {a \in DOMAIN attachments :
                        /\ attachments[a].entry_id = The(entry_id)
                        /\ OwnedEntry(attachments[a].entry_id, UserIdOf(u))}
       IN  Reply(u, "entry_files_callback",
                 IF Len(parts) # 3 THEN "invalid_data"
                 ELSE IF entry_id = None THEN "bad_id"
                 ELSE IF UserIdOf(u) = 0 THEN "use_start"
                 ELSE IF ~Bindable(The(entry_id)) THEN "raised"
                 ELSE IF files = {} THEN "no_files"
                 ELSE "files_list")
    /\ UNCHANGED fsm /\ SameStore /\ Background

file_send_callback(u, e) ==
    /\ LET parts == split(e.body, Colon)
           attachment_id == int(parts[3])
       IN  Reply(u, "file_send_callback",
                 IF Len(parts) # 3 THEN "invalid_data"
                 ELSE IF attachment_id = None THEN "bad_id"
                 ELSE IF UserIdOf(u) = 0 THEN "use_start"
                 ELSE IF ~Bindable(The(attachment_id)) THEN "raised"
                 ELSE IF ~OwnedAttachment(The(attachment_id), UserIdOf(u))
                 THEN "not_found"
                 ELSE "file_sent")
    /\ UNCHANGED fsm /\ SameStore /\ Background

\* show_history(callback.message): the message is the bot's own, so the
\* history shown, and the User row ensured, are those of the bot's id
history_back_callback(u, e) ==
    /\ users' = EnsuredUsers(BotId)
    /\ Reply(u, "history_back_callback", "history")
    /\ UNCHANGED <<pets, entries, attachments, reminders, fsm>>
    /\ Background

summary_period_callback(u, e) ==
    /\ LET parts == split(e.body, Colon)
           days == int(parts[3])
       IN  IF Len(parts) # 3
           THEN Reply(u, "summary_period_callback", "invalid_data") /\ UNCHANGED users
           ELSE IF days = None
           THEN Reply(u, "summary_period_callback", "bad_period") /\ UNCHANGED users
           ELSE IF ~Representable(PlusDays(clock, 0 - The(days)))
           THEN Reply(u, "summary_period_callback", "raised") /\ UNCHANGED users
           ELSE /\ users' = EnsuredUsers(u)
                /\ Reply(u, "summary_period_callback", "summary")
    /\ UNCHANGED <<pets, entries, attachments, reminders, fsm>>
    /\ Background

-----------------------------------------------------------------------------
(* reminders_worker: one pass is the SELECT, one bot.send_message per row  *)
(* (the worker is suspended at each, and handlers run meanwhile), and the  *)
(* COMMIT that writes is_done and last_sent_at of the rows it loaded.      *)

\* Faulty variants of the SELECT: one without the is_done filter, one that
\* takes only rows strictly past due
DueRows_any_status(now) ==
    {r \in DOMAIN reminders :
        /\ reminders[r].due_at <= now
        /\ reminders[r].pet_id \in DOMAIN pets
        /\ reminders[r].user_id \in DOMAIN users}

DueRows_strictly_past(now) ==
    {r \in DOMAIN reminders :
        /\ ~reminders[r].is_done
        /\ reminders[r].due_at < now
        /\ reminders[r].pet_id \in DOMAIN pets
        /\ reminders[r].user_id \in DOMAIN users}

\* The rows of the SELECT ... JOIN pets JOIN users WHERE is_done IS false
\* AND due_at <= now
\* Faulty variant of the SELECT: it takes the rows due within the next day
DueRows_day_ahead(now) ==
    {r \in DOMAIN reminders :
        /\ ~reminders[r].is_done
        /\ reminders[r].due_at <= PlusDays(now, 1)
        /\ reminders[r].pet_id \in DOMAIN pets
        /\ reminders[r].user_id \in DOMAIN users}

DueRows(now) ==
    {r \in DOMAIN reminders :
        /\ ~reminders[r].is_done
        /\ reminders[r].due_at <= now
        /\ reminders[r].pet_id \in DOMAIN pets
        /\ reminders[r].user_id \in DOMAIN users}

RECURSIVE InOrder(_)
InOrder(S) == IF S = {} THEN <<>> ELSE <<Min(S)>> \o InOrder(S \ {Min(S)})

WorkerSelect ==
    /\ worker.pc = "sleep"
    /\ DueRows(clock) # {}
    /\ worker' = [pc |-> "send", now |-> clock, rows |-> InOrder(DueRows(clock)),
                  marked |-> {}]
    /\ UNCHANGED <<run, clock, fsm, deliveries, last, update>> /\ SameStore

\* Faulty variant of the loop body: the row is marked inside the try, so a
\* send that raises leaves it unmarked
WorkerSend_mark_on_success ==
    /\ worker.pc = "send"
    /\ worker.rows # <<>>
    /\ \E outcome \in {"sent", "failed"} :
           /\ deliveries' = [deliveries EXCEPT ![Head(worker.rows)] =
                                 Append(@, [outcome |-> outcome, at |-> worker.now])]
           /\ worker' = [worker EXCEPT
                             !.rows = Tail(@),
                             !.marked = IF outcome = "sent"
                                        THEN @ \cup {Head(worker.rows)} ELSE @]
    /\ UNCHANGED <<run, clock, fsm, last, update>> /\ SameStore

\* bot.send_message returns (outcome "sent") or raises (outcome "failed");
\* either way the loop body goes on to mark the row
\* Faulty variant of the loop body: without the try, a send that raises ends
\* the loop, and the rows that follow are neither tried nor marked
WorkerSend_abort_on_failure ==
    /\ worker.pc = "send"
    /\ worker.rows # <<>>
    /\ \E outcome \in {"sent", "failed"} :
           /\ deliveries' = [deliveries EXCEPT ![Head(worker.rows)] =
                                 Append(@, [outcome |-> outcome, at |-> worker.now])]
           /\ worker' = [worker EXCEPT
                             !.rows = IF outcome = "sent" THEN Tail(@) ELSE <<>>,
                             !.marked = @ \cup {Head(worker.rows)}]
    /\ UNCHANGED <<run, clock, fsm, last, update>> /\ SameStore

WorkerSend ==
    /\ worker.pc = "send"
    /\ worker.rows # <<>>
    /\ \E outcome \in {"sent", "failed"} :
           deliveries' = [deliveries EXCEPT ![Head(worker.rows)] =
                             Append(@, [outcome |-> outcome, at |-> worker.now])]
    /\ worker' = [worker EXCEPT !.rows = Tail(@),
                                !.marked = @ \cup {Head(worker.rows)}]
    /\ UNCHANGED <<run, clock, fsm, last, update>> /\ SameStore

\* Faulty variants of the commit: one that stamps last_sent_at and leaves
\* is_done alone, one that also moves due_at to the pass's now
WorkerCommit_stamp_only ==
    /\ worker.pc = "send"
    /\ worker.rows = <<>>
    /\ reminders' = [r \in DOMAIN reminders |->
                        IF r \in worker.marked
                        THEN [reminders[r] EXCEPT !.last_sent_at = Some(worker.now)]
                        ELSE reminders[r]]
    /\ worker' = Asleep
    /\ UNCHANGED <<run, clock, users, pets, entries, attachments, fsm, deliveries, last, update>>

WorkerCommit_reschedule ==
    /\ worker.pc = "send"
    /\ worker.rows = <<>>
    /\ reminders' = [r \in DOMAIN reminders |->
                        IF r \in worker.marked
                        THEN [reminders[r] EXCEPT !.is_done = TRUE,
                                                  !.due_at = worker.now,
                                                  !.last_sent_at = Some(worker.now)]
                        ELSE reminders[r]]
    /\ worker' = Asleep
    /\ UNCHANGED <<run, clock, users, pets, entries, attachments, fsm, deliveries, last, update>>

\* Faulty variant of the commit: it marks every row that is due by now, the
\* rows made since the SELECT included
WorkerCommit_all_due ==
    /\ worker.pc = "send"
    /\ worker.rows = <<>>
    /\ reminders' = [r \in DOMAIN reminders |->
                        IF r \in worker.marked \cup DueRows(clock)
                        THEN [reminders[r] EXCEPT !.is_done = TRUE,
                                                  !.last_sent_at = Some(worker.now)]
                        ELSE reminders[r]]
    /\ worker' = Asleep
    /\ UNCHANGED <<run, clock, users, pets, entries, attachments, fsm, deliveries, last, update>>

\* Faulty variant of the commit: instead of the rows the pass loaded it marks
\* whatever is due at the pass's now when it commits
WorkerCommit_bulk_update ==
    /\ worker.pc = "send"
    /\ worker.rows = <<>>
    /\ reminders' = [r \in DOMAIN reminders |->
                        IF r \in DueRows(worker.now)
                        THEN [reminders[r] EXCEPT !.is_done = TRUE,
                                                  !.last_sent_at = Some(worker.now)]
                        ELSE reminders[r]]
    /\ worker' = Asleep
    /\ UNCHANGED <<run, clock, users, pets, entries, attachments, fsm, deliveries, last, update>>

WorkerCommit ==
    /\ worker.pc = "send"
    /\ worker.rows = <<>>
    /\ reminders' = [r \in DOMAIN reminders |->
                        IF r \in worker.marked
                        THEN [reminders[r] EXCEPT !.is_done = TRUE,
                                                  !.last_sent_at = Some(worker.now)]
                        ELSE reminders[r]]
    /\ worker' = Asleep
    /\ UNCHANGED <<run, clock, users, pets, entries, attachments, fsm, deliveries, last, update>>

\* Time passes
Tick ==
    /\ clock < StartClock + MaxTicks
    /\ clock' = clock + 1
    /\ UNCHANGED <<run, fsm, worker, deliveries, last, update>> /\ SameStore

-----------------------------------------------------------------------------

\* The dispatcher: the update e of user u goes to the handler the router names
Dispatched(u, e, h) == Routing[fsm[u].state][e] = h

Worker == WorkerSelect \/ WorkerSend \/ WorkerCommit

Next ==
    \/ \E u \in TelegramIds : \E e \in Inputs(u) :
           Dispatched(u, e, "cmd_start") /\ cmd_start(u, e) /\ update' = e
    \/ \E u \in TelegramIds : \E e \in Inputs(u) :
           Dispatched(u, e, "cmd_help") /\ cmd_help(u, e) /\ update' = e
    \/ \E u \in TelegramIds : \E e \in Inputs(u) :
           Dispatched(u, e, "cmd_cancel") /\ cmd_cancel(u, e) /\ update' = e
    \/ \E u \in TelegramIds : \E e \in Inputs(u) :
           Dispatched(u, e, "handle_main_menu") /\ handle_main_menu(u, e) /\ update' = e
    \/ \E u \in TelegramIds : \E e \in Inputs(u) :
           Dispatched(u, e, "unhandled") /\ unhandled(u, e) /\ update' = e
    \/ \E u \in TelegramIds : \E e \in Inputs(u) :
           Dispatched(u, e, "pets_back_callback") /\ pets_back_callback(u, e) /\ update' = e
    \/ \E u \in TelegramIds : \E e \in Inputs(u) :
           Dispatched(u, e, "pets_list_callback") /\ pets_list_callback(u, e) /\ update' = e
    \/ \E u \in TelegramIds : \E e \in Inputs(u) :
           Dispatched(u, e, "pet_card_callback") /\ pet_card_callback(u, e) /\ update' = e
    \/ \E u \in TelegramIds : \E e \in Inputs(u) :
           Dispatched(u, e, "pet_set_active_callback") /\ pet_set_active_callback(u, e) /\ update' = e
    \/ \E u \in TelegramIds : \E e \in Inputs(u) :
           Dispatched(u, e, "pets_add_start") /\ pets_add_start(u, e) /\ update' = e
    \/ \E u \in TelegramIds : \E e \in Inputs(u) :
           Dispatched(u, e, "pets_add_name") /\ pets_add_name(u, e) /\ update' = e
    \/ \E u \in TelegramIds : \E e \in Inputs(u) :
           Dispatched(u, e, "pets_add_species") /\ pets_add_species(u, e) /\ update' = e
    \/ \E u \in TelegramIds : \E e \in Inputs(u) :
           Dispatched(u, e, "pets_add_breed_skip") /\ pets_add_breed_skip(u, e) /\ update' = e
    \/ \E u \in TelegramIds : \E e \in Inputs(u) :
           Dispatched(u, e, "pets_add_breed") /\ pets_add_breed(u, e) /\ update' = e
    \/ \E u \in TelegramIds : \E e \in Inputs(u) :
           Dispatched(u, e, "entry_type_callback") /\ entry_type_callback(u, e) /\ update' = e
    \/ \E u \in TelegramIds : \E e \in Inputs(u) :
           Dispatched(u, e, "entry_date_callback") /\ entry_date_callback(u, e) /\ update' = e
    \/ \E u \in TelegramIds : \E e \in Inputs(u) :
           Dispatched(u, e, "entry_custom_date_message") /\ entry_custom_date_message(u, e) /\ update' = e
    \/ \E u \in TelegramIds : \E e \in Inputs(u) :
           Dispatched(u, e, "entry_text_message") /\ entry_text_message(u, e) /\ update' = e
    \/ \E u \in TelegramIds : \E e \in Inputs(u) :
           Dispatched(u, e, "vaccine_reminder_start") /\ vaccine_reminder_start(u, e) /\ update' = e
    \/ \E u \in TelegramIds : \E e \in Inputs(u) :
           Dispatched(u, e, "vaccine_choose_vaccine") /\ vaccine_choose_vaccine(u, e) /\ update' = e
    \/ \E u \in TelegramIds : \E e \in Inputs(u) :
           Dispatched(u, e, "vaccine_choose_delay") /\ vaccine_choose_delay(u, e) /\ update' = e
    \/ \E u \in TelegramIds : \E e \in Inputs(u) :
           Dispatched(u, e, "vaccine_custom_delay_message") /\ vaccine_custom_delay_message(u, e) /\ update' = e
    \/ \E u \in TelegramIds : \E e \in Inputs(u) :
           Dispatched(u, e, "meds_dewormer_reminder_start") /\ meds_dewormer_reminder_start(u, e) /\ update' = e
    \/ \E u \in TelegramIds : \E e \in Inputs(u) :
           Dispatched(u, e, "entry_attach_start") /\ entry_attach_start(u, e) /\ update' = e
    \/ \E u \in TelegramIds : \E e \in Inputs(u) :
           Dispatched(u, e, "entry_attach_photo") /\ entry_attach_photo(u, e) /\ update' = e
    \/ \E u \in TelegramIds : \E e \in Inputs(u) :
           Dispatched(u, e, "entry_attach_document") /\ entry_attach_document(u, e) /\ update' = e
    \/ \E u \in TelegramIds : \E e \in Inputs(u) :
           Dispatched(u, e, "entry_attach_done") /\ entry_attach_done(u, e) /\ update' = e
    \/ \E u \in TelegramIds : \E e \in Inputs(u) :
           Dispatched(u, e, "entry_view_callback") /\ entry_view_callback(u, e) /\ update' = e
    \/ \E u \in TelegramIds : \E e \in Inputs(u) :
           Dispatched(u, e, "entry_files_callback") /\ entry_files_callback(u, e) /\ update' = e
    \/ \E u \in TelegramIds : \E e \in Inputs(u) :
           Dispatched(u, e, "file_send_callback") /\ file_send_callback(u, e) /\ update' = e
    \/ \E u \in TelegramIds : \E e \in Inputs(u) :
           Dispatched(u, e, "history_back_callback") /\ history_back_callback(u, e) /\ update' = e
    \/ \E u \in TelegramIds : \E e \in Inputs(u) :
           Dispatched(u, e, "summary_period_callback") /\ summary_period_callback(u, e) /\ update' = e
    \/ WorkerSelect
    \/ WorkerSend
    \/ WorkerCommit
    \/ Tick

-----------------------------------------------------------------------------
(* validators.validate_date: a function of the text and of the clock        *)

\* A datetime with or without a tzinfo
Naive(t) == [ticks |-> t, aware |-> FALSE]
Aware(t) == [ticks |-> t, aware |-> TRUE]

\* a > b of two datetimes: a naive one and an aware one do not compare
\* (TypeError)
Later(a, b) ==
    IF a.aware # b.aware THEN "TypeError"
    ELSE IF a.ticks > b.ticks THEN "yes" ELSE "no"

Returned(t) == [outcome |-> "returned", value |-> Some(t)]
Raised(x) == [outcome |-> x, value |-> None]

\* validate_date(date_str) called at the instant now
validate_date(date_str, now) ==
    LET parsed == strptime(strip(date_str))
        dt == Naive(DateTime(The(parsed).year, The(parsed).month, The(parsed).day))
        max_future_date == Aware(PlusDays(now, 1))
        min_date == Naive(DateTime(1900, 1, 1))
    IN  IF parsed = None THEN Raised("ValidationError")
        ELSE IF Later(dt, max_future_date) = "TypeError" THEN Raised("TypeError")
        ELSE IF Later(dt, max_future_date) = "yes" THEN Raised("ValidationError")
        ELSE IF Later(min_date, dt) = "TypeError" THEN Raised("TypeError")
        ELSE IF Later(min_date, dt) = "yes" THEN Raised("ValidationError")
        ELSE Returned(dt.ticks)

\* The texts validate_date is called with: dates around 1900-01-01 and
\* around the clock, months and days that do not exist, texts that are no
\* date
DateTexts ==
    {y \o <<"-">> \o m \o <<"-">> \o d :
        y \in {<<"1", "8", "9", "9">>, <<"1", "9", "0", "0">>, <<"2", "0", "2", "4">>, <<"2", "0", "2", "5">>},
        m \in {<<"0", "1">>, <<"1">>, <<"1", "2">>, <<"1", "3">>},
        d \in {<<"0", "1">>, <<"0", "2">>, <<"0", "3">>, <<"0", "4">>, <<"3", "1">>}}
      \cup {NotADate, Blank, InRangeDate \o <<" ">>, NoSuchDay, FutureDate}

ValidateInit ==
    /\ run = "validate"
    /\ clock = StartClock
    /\ users = <<>> /\ pets = <<>> /\ entries = <<>>
    /\ attachments = <<>> /\ reminders = <<>>
    /\ fsm = [u \in TelegramIds |-> Cleared]
    /\ worker = Asleep
    /\ update = NoMessage
    /\ deliveries = <<>>
    /\ last = NoUpdate

\* One call: update keeps the text, last what the call gave
ValidateCall ==
    /\ \E s \in DateTexts :
           /\ update' = TextMsg(s)
           /\ last' = [user |-> "nobody", handler |-> "validate_date", from |-> NoState,
                       reply |-> validate_date(s, clock).outcome,
                       value |-> validate_date(s, clock).value]
    /\ UNCHANGED <<run, clock, fsm, worker, deliveries>> /\ SameStore

ValidateNext == ValidateCall \/ Tick

ValidateSpec == ValidateInit /\ [][ValidateNext]_vars

Spec == Init /\ [][Next]_vars

\* The terminal steps of the add-pet and add-entry wizards guard against a
\* data bag that lacks what the earlier steps write.  No behaviour of Spec
\* reaches such a step (TerminalStepsHaveContext, below): the steps that set
\* the state tag write the bag first.  TerminalSpec also starts a
\* conversation at a terminal step with a bag drawn from PartialBags: the
\* bag is what "await state.get_data()" hands to the step, and the guards
\* "if not entry_type or not raw_date" and "if not name or not species" are
\* checked against every shape of bag they tell apart.
PartialBags ==
    LET today == Some(isoformat(DateOf(StartClock)))
        meds == Some(<<"m", "e", "d", "s">>)
        dog == Some(<<"d", "o", "g">>)
    IN  (AddEntryStates_text :>
            {EmptyData, [entry_type |-> meds], [date |-> today],
             [entry_type |-> None, date |-> today],
             [entry_type |-> meds, date |-> Some(<<>>)],
             [entry_type |-> meds, date |-> today]})
        @@ (AddPetStates_breed :>
            {EmptyData, [name |-> Some(RexName)], [species |-> dog],
             [name |-> Some(<<>>), species |-> dog],
             [name |-> Some(RexName), species |-> None],
             [name |-> Some(RexName), species |-> dog]})

TerminalInit ==
    /\ run = "lostcontext"
    /\ clock = StartClock
    /\ users = Runs[run].users
    /\ pets = Runs[run].pets
    /\ entries = Runs[run].entries
    /\ attachments = Runs[run].attachments
    /\ reminders = <<>>
    /\ \E st \in DOMAIN PartialBags : \E bag \in PartialBags[st] :
           fsm = [u \in TelegramIds |->
                     IF u = "alice" THEN [state |-> st, data |-> bag] ELSE Cleared]
    /\ worker = Asleep
    /\ update = NoMessage
    /\ deliveries = <<>>
    /\ last = NoUpdate

TerminalSpec == (Init \/ TerminalInit) /\ [][Next]_vars

\* The worker's loop never stops: "while True: ...; await asyncio.sleep(...)"
FairSpec == Spec /\ WF_vars(Worker)

-----------------------------------------------------------------------------
(* The reminder worker *)

\* C1: once a pass has set is_done of a reminder, no later pass selects it
\* and no further delivery attempt is made for it; a done reminder has had
\* exactly one attempt.
C1_DoneNeverResent ==
    [][\A r \in DOMAIN reminders :
          /\ reminders[r].is_done =>
                /\ deliveries'[r] = deliveries[r]
                /\ \A i \in DOMAIN worker'.rows : worker'.rows[i] # r
          /\ reminders'[r].is_done => Len(deliveries'[r]) = 1]_vars

\* A second pass is under way while a reminder of an earlier pass is done
C1_Witness ==
    \E r \in DOMAIN reminders :
        /\ reminders[r].is_done
        /\ worker.pc = "send"
        /\ worker.rows # <<>>

\* C2: every reminder a pass selected has, once the pass is over,
\* is_done = true and last_sent_at = the pass's now, whether its send
\* returned or raised.
C2_SelectedRowsMarked ==
    \A r \in DOMAIN reminders :
        (deliveries[r] # <<>> /\ ~(worker.pc = "send" /\ r \in worker.marked)) =>
            /\ reminders[r].is_done
            /\ reminders[r].last_sent_at = Some(deliveries[r][Len(deliveries[r])].at)

\* One row whose send raised and one whose send returned, both marked
C2_Witness ==
    /\ worker.pc = "sleep"
    /\ \E r, q \in DOMAIN reminders :
           /\ deliveries[r] # <<>> /\ deliveries[r][1].outcome = "failed"
           /\ deliveries[q] # <<>> /\ deliveries[q][1].outcome = "sent"
           /\ reminders[r].is_done /\ reminders[q].is_done

\* C3: a reminder gets at most one delivery attempt, whatever its outcome.
C3_AtMostOneAttempt ==
    \A r \in DOMAIN reminders : Len(deliveries[r]) <= 1

\* The send of a reminder raised, the pass ended, time went on and the
\* worker is asleep again: nothing is left to retry
C3_Witness ==
    \E r \in DOMAIN reminders :
        /\ deliveries[r] = <<[outcome |-> "failed", at |-> StartClock]>>
        /\ worker.pc = "sleep"
        /\ clock > StartClock
        /\ DueRows(clock) = {}

\* C4: with the worker's loop running for ever, every reminder that is not
\* done and is due is eventually done.
C4_DueEventuallyDone ==
    \A r \in 1..MaxReminders :
        (r \in DOMAIN reminders /\ ~reminders[r].is_done
            /\ reminders[r].due_at <= clock)
          ~> (r \in DOMAIN reminders /\ reminders[r].is_done)

\* A reminder created for a later day became due as time passed and was
\* marked by the pass of that moment
C4_Witness ==
    \E r \in DOMAIN reminders :
        /\ reminders[r].due_at > StartClock
        /\ reminders[r].is_done
        /\ reminders[r].last_sent_at = Some(reminders[r].due_at)

\* C5: is_done never goes from true to false, and due_at of a reminder
\* never changes.
C5_DoneAndDueAreStable ==
    [][\A r \in DOMAIN reminders :
          /\ r \in DOMAIN reminders'
          /\ reminders[r].is_done => reminders'[r].is_done
          /\ reminders'[r].due_at = reminders[r].due_at]_vars

\* A reminder was marked done, and the user has since made another one
C5_Witness ==
    \E r, q \in DOMAIN reminders :
        /\ r < q
        /\ reminders[r].is_done
        /\ ~reminders[q].is_done
        /\ reminders[q].due_at > The(reminders[r].last_sent_at)

-----------------------------------------------------------------------------
(* The wizards *)

\* The step is the handling of an update of user u
Handled(u) == last'.user = u /\ <<last', update'>> # <<last, update>>

\* The bot's commands are taken before any step of a wizard sees them
IsBotCommand(e) == \E c \in {start, help, cancel} : IsCommand(e, c)

CancelUpdates == {e \in Sendable : IsCommand(e, cancel)}

\* C6: from every wizard state, a cancel command is handled by the cancel
\* handler and leaves the user with no state tag and an empty data bag.
C6_CancelLeavesEveryWizard ==
    [][\A u \in TelegramIds :
          (fsm[u].state \in WizardStates /\ Handled(u) /\ update' \in CancelUpdates) =>
              /\ last'.handler = "cmd_cancel"
              /\ fsm'[u].state = NoState
              /\ DOMAIN fsm'[u].data = {}]_vars

\* A cancel command taken in the last step of the vaccine wizard, whose bag
\* held the entry, the pet and the vaccine
C6_Witness ==
    /\ update \in CancelUpdates
    /\ last.handler = "cmd_cancel"
    /\ last.from = VaccineReminderStates_custom_delay
    /\ fsm[last.user] = Cleared

\* C7: a cancel command of a user with no wizard open changes neither the
\* FSM storage of any user nor any table.
C7_IdleCancelChangesNothing ==
    [][\A u \in TelegramIds :
          (fsm[u].state = NoState /\ Handled(u) /\ update' \in CancelUpdates) =>
              /\ fsm' = fsm
              /\ store' = store]_vars

\* A user the database does not know cancelled with no wizard open: there is
\* still no row for them
C7_Witness ==
    /\ update \in CancelUpdates
    /\ last.handler = "cmd_cancel"
    /\ last.from = NoState
    /\ last.reply = "no_active_action"
    /\ UserIdOf(last.user) = 0

\* What follows the prefix p in the data of a callback
Token(e, p) == SubSeq(e.body, Len(p) + 1, Len(e.body))

\* An invalid input of a step: empty text, a token outside the choices the
\* step's keyboard offers, a delay that is no positive number, a date that
\* does not parse
InvalidInput(st, data, e) ==
    CASE st \in {AddPetStates_name, AddPetStates_breed, AddEntryStates_text} ->
            IsMessage(e) /\ strip(e.body) = <<>>
      [] st = AddPetStates_species ->
            e.kind = "callback" /\ startswith(e.body, P_species)
                /\ Token(e, P_species) \notin PetSpecies
      [] st = AddEntryStates_type ->
            e.kind = "callback" /\ startswith(e.body, P_entry_type)
                /\ Token(e, P_entry_type) \notin EntryType
      [] st = AddEntryStates_date_choice ->
            e.kind = "callback" /\ startswith(e.body, P_entry_date)
                /\ Token(e, P_entry_date) \notin {<<"t", "o", "d", "a", "y">>, <<"y", "e", "s", "t", "e", "r", "d", "a", "y">>, <<"c", "u", "s", "t", "o", "m">>}
      [] st = AddEntryStates_custom_date ->
            IsMessage(e) /\ ~IsBotCommand(e) /\ strptime(strip(e.body)) = None
      [] st = VaccineReminderStates_choosing_vaccine ->
            e.kind = "callback" /\ startswith(e.body, P_vrem_vaccine)
                /\ Token(e, P_vrem_vaccine) \notin
                       VaccineMenu(IF TruthyStr(Get(data, "species"))
                                   THEN The(data["species"]) ELSE <<>>)
      [] st = VaccineReminderStates_choosing_delay ->
            e.kind = "callback" /\ startswith(e.body, P_vrem_delay)
                /\ Token(e, P_vrem_delay) \notin DelayMenu
      [] st = VaccineReminderStates_custom_delay ->
            IsMessage(e) /\ ~IsBotCommand(e)
                /\ (int(strip(e.body)) = None \/ The(int(strip(e.body))) <= 0)
      [] OTHER -> FALSE

\* C8: at every step of every wizard an invalid input leaves the user's
\* state tag unchanged and persists no entity.
C8_InvalidInputKeepsStep ==
    [][\A u \in TelegramIds :
          (Handled(u) /\ InvalidInput(fsm[u].state, fsm[u].data, update')) =>
              /\ fsm'[u].state = fsm[u].state
              /\ store' = store]_vars

\* The earliest date and the latest date the specification lets an entry have
MinEventDate == DateTime(1900, 1, 1)
MaxEventDate(now) == PlusDays(DateOf(now), 1)

OutOfRange(d, now) ==
    LET t == DateTime(d.year, d.month, d.day)
    IN  t < MinEventDate \/ t > MaxEventDate(now)

\* C9: in the custom-date step a well-formed date before 1900-01-01 or more
\* than one day after today is rejected: the state stays, the bag gets no
\* date, and no entry has such a date.
C9_OutOfRangeDateRejected ==
    [][/\ \A u \in TelegramIds :
            LET dt == strptime(strip(update'.body))
            IN  (/\ fsm[u].state = AddEntryStates_custom_date
                 /\ Handled(u) /\ IsMessage(update') /\ ~IsBotCommand(update')
                 /\ dt # None /\ OutOfRange(The(dt), clock)) =>
                    /\ fsm'[u].state = AddEntryStates_custom_date
                    /\ Get(fsm'[u].data, "date") = Get(fsm[u].data, "date")
       /\ \A i \in DOMAIN entries' :
            /\ entries'[i].date >= MinEventDate
            /\ entries'[i].date <= MaxEventDate(clock')]_vars

\* C10: in the custom-date step an input that parses as a date in range
\* puts that calendar date in the bag and moves the state to the text step;
\* an input that does not parse leaves the state and the bag as they were.
C10_CustomDateStep ==
    [][\A u \in TelegramIds :
          LET dt == strptime(strip(update'.body))
              stored == The(fsm'[u].data["date"])
          IN  (/\ fsm[u].state = AddEntryStates_custom_date
               /\ Handled(u) /\ IsMessage(update') /\ ~IsBotCommand(update')) =>
                  /\ dt = None => fsm'[u] = fsm[u]
                  /\ (dt # None /\ ~OutOfRange(The(dt), clock)) =>
                        /\ fsm'[u].state = AddEntryStates_text
                        /\ "date" \in DOMAIN fsm'[u].data
                        /\ Len(stored) = 10 + Len(MidnightSuffix)
                        /\ strptime(SubSeq(stored, 1, 10)) = dt
                        /\ SubSeq(stored, 11, Len(stored)) = MidnightSuffix
                        /\ \A k \in DOMAIN fsm[u].data \ {"date"} :
                              /\ k \in DOMAIN fsm'[u].data
                              /\ fsm'[u].data[k] = fsm[u].data[k]]_vars

\* "2024-06-01" typed in the custom-date step: the bag holds that day at
\* midnight and the wizard asks for the text
C10_Witness ==
    /\ update = TextMsg(InRangeDate)
    /\ last.handler = "entry_custom_date_message"
    /\ last.from = AddEntryStates_custom_date
    /\ fsm[last.user].state = AddEntryStates_text
    /\ Get(fsm[last.user].data, "date") = Some(InRangeDate \o MidnightSuffix)

\* A message a step of a wizard takes as its text
StepText(e) == IsMessage(e) /\ ~IsBotCommand(e)

\* C11: the add-pet wizard, given a non-empty name and a species of the
\* list, creates on the skip signal exactly one Pet row of that user with
\* that name and species and no breed, and on a non-empty breed text exactly
\* one Pet row with that breed; the user is left idle.
C11_AddPetCompletes ==
    [][\A u \in TelegramIds :
          LET e == update'
              typed == strip(e.body)
              bag == fsm[u].data
              row == pets'[Len(pets')]
          IN  /\ (Handled(u) /\ fsm[u].state = AddPetStates_name
                     /\ StepText(e) /\ typed # <<>>) =>
                    /\ fsm'[u].state = AddPetStates_species
                    /\ Get(fsm'[u].data, "name") = Some(typed)
              /\ (Handled(u) /\ fsm[u].state = AddPetStates_species
                     /\ e.kind = "callback" /\ startswith(e.body, P_species)
                     /\ Token(e, P_species) \in PetSpecies) =>
                    /\ fsm'[u].state = AddPetStates_breed
                    /\ Get(fsm'[u].data, "species") = Some(Token(e, P_species))
                    /\ Get(fsm'[u].data, "name") = Get(bag, "name")
              /\ (Handled(u) /\ fsm[u].state = AddPetStates_breed
                     /\ (e = Callback(P_breed_skip) \/ (StepText(e) /\ typed # <<>>))) =>
                    /\ Len(pets') = Len(pets) + 1
                    /\ SubSeq(pets', 1, Len(pets)) = pets
                    /\ row.user_id \in DOMAIN users'
                    /\ users'[row.user_id].telegram_id = u
                    /\ Some(row.name) = Get(bag, "name")
                    /\ Some(row.species) = Get(bag, "species")
                    /\ row.breed = (IF e.kind = "callback" THEN None ELSE Some(typed))
                    /\ fsm'[u] = Cleared]_vars

\* Two pets of one user, made by the wizard: one with the breed skipped, one
\* with the breed typed; the user is idle
C11_Witness ==
    /\ Len(pets) = 2
    /\ pets[1].name = RexName /\ pets[2].name = RexName
    /\ {pets[1].breed, pets[2].breed} = {None, Some(LabName)}
    /\ UserIdOf("alice") # 0
    /\ pets[1].user_id = UserIdOf("alice") /\ pets[2].user_id = UserIdOf("alice")
    /\ fsm["alice"] = Cleared
    /\ last.reply = "pet_created"

AddEntryStates ==
    {AddEntryStates_type, AddEntryStates_date_choice,
     AddEntryStates_custom_date, AddEntryStates_text}

\* In the table us, telegram user u has no row or a row without active pet
NoActivePet(us, u) ==
    \A i \in DOMAIN us : us[i].telegram_id = u => ~TruthyInt(us[i].active_pet_id)

\* C12: a user with no active pet creates no Entry: the add-entry button
\* does not open the wizard for them, none of their updates adds an Entry,
\* and they are never in a step of the add-entry wizard.
C12_NoActivePetNoEntry ==
    [][\A u \in TelegramIds :
          /\ (Handled(u) /\ NoActivePet(users, u)) => entries' = entries
          /\ (Handled(u) /\ NoActivePet(users', u)
                 /\ update' = TextMsg(MAIN_MENU_BUTTON_ENTRY)
                 /\ last'.handler = "handle_main_menu") =>
                /\ fsm'[u] = fsm[u]
                /\ fsm'[u].state # AddEntryStates_type
          /\ NoActivePet(users', u) => fsm'[u].state \notin AddEntryStates]_vars

\* A user without an active pet pressed the add-entry button and was sent to
\* the pets; another user, who has one, has saved an Entry meanwhile
C12_Witness ==
    /\ update = TextMsg(MAIN_MENU_BUTTON_ENTRY)
    /\ last.user = "bob"
    /\ last.reply = "choose_pet_first"
    /\ UserIdOf("bob") # 0
    /\ NoActivePet(users, "bob")
    /\ fsm["bob"].state = NoState
    /\ entries # <<>>
    /\ \A i \in DOMAIN entries : pets[entries[i].pet_id].user_id = UserIdOf("alice")

\* The delays the keyboard of the delay step offers
MenuDelays == {30, 90, 180, 365}

\* The delay with which update e completes the vaccine reminder wizard of u:
\* a delay of the menu at the delay step, a positive integer typed at the
\* custom step; 0 when e does not complete the wizard
CompletingDelay(u, e) ==
    IF /\ fsm[u].state = VaccineReminderStates_choosing_delay
       /\ e.kind = "callback" /\ startswith(e.body, P_vrem_delay)
       /\ int(Token(e, P_vrem_delay)) \in {Some(d) : d \in MenuDelays}
    THEN The(int(Token(e, P_vrem_delay)))
    ELSE IF /\ fsm[u].state = VaccineReminderStates_custom_delay
            /\ StepText(e)
            /\ int(strip(e.body)) # None
            /\ The(int(strip(e.body))) > 0
    THEN The(int(strip(e.body)))
    ELSE 0

\* The step appends exactly one Reminder: not done, due d days after the
\* instant of the step, of the Entry and Pet in the bag of u and of u's row
PersistsVaccineReminder(u, d) ==
    LET row == reminders'[Len(reminders')]
    IN  /\ Len(reminders') = Len(reminders) + 1
        /\ SubSeq(reminders', 1, Len(reminders)) = reminders
        /\ row.due_at = PlusDays(clock, d)
        /\ row.is_done = FALSE
        /\ row.entry_id = Get(fsm[u].data, "entry_id")
        /\ Some(row.pet_id) = Get(fsm[u].data, "pet_id")
        /\ row.user_id \in DOMAIN users'
        /\ users'[row.user_id].telegram_id = u
        /\ OwnedEntry(The(row.entry_id), row.user_id)
        /\ entries[The(row.entry_id)].pet_id = row.pet_id

\* C13: when the vaccine reminder wizard completes with a delay of d days, a
\* delay of the menu or the positive integer typed at the custom step,
\* exactly one Reminder is persisted, due d days after the instant of the
\* step, not done, of the originating Entry, its Pet and the user, and the
\* state of the user is cleared.
C13_VaccineReminderDue ==
    [][\A u \in TelegramIds :
          LET d == CompletingDelay(u, update')
          IN  (Handled(u) /\ d > 0) =>
                 /\ PersistsVaccineReminder(u, d)
                 /\ fsm'[u] = Cleared]_vars

\* The same, for the delays whose due instant datetime can represent
VaccineReminderDueWhenRepresentable ==
    [][\A u \in TelegramIds :
          LET d == CompletingDelay(u, update')
          IN  (Handled(u) /\ d > 0 /\ Representable(PlusDays(clock, d))) =>
                 /\ PersistsVaccineReminder(u, d)
                 /\ fsm'[u] = Cleared]_vars

\* The wizard completed from the menu with 30 days: the reminder of the
\* vaccination entry is due 30 days after the step, the user is idle
VaccineReminderDue_Reached ==
    /\ update = Callback(P_vrem_delay \o <<"3", "0">>)
    /\ last.reply = "reminder_created"
    /\ reminders # <<>>
    /\ reminders[Len(reminders)].due_at >= PlusDays(StartClock, 30)
    /\ reminders[Len(reminders)].entry_id = Some(1)
    /\ fsm["alice"] = Cleared

\* The custom step was given a delay whose due instant is past datetime.max:
\* the handler raised, nothing was persisted and the step is still open
HugeDelay_Raised ==
    /\ update = TextMsg(HugeDelay)
    /\ last.reply = "raised"
    /\ reminders = <<>>
    /\ fsm["alice"].state = VaccineReminderStates_custom_delay

\* The Entry the medication shortcut e of user u names, when u owns it; 0
\* otherwise
ShortcutEntry(u, e) ==
    LET id == int(Token(e, P_mrem_start))
    IN  IF /\ e.kind = "callback" /\ startswith(e.body, P_mrem_start)
           /\ id # None
           /\ UserIdOf(u) # 0
           /\ OwnedEntry(The(id), UserIdOf(u))
        THEN The(id) ELSE 0

\* The step appends one Reminder of Entry id: not done, due ten days after
\* the date of the Entry, of its Pet and of the row of user u
PersistsRepeatReminder(u, id) ==
    LET row == reminders'[Len(reminders')]
    IN  /\ Len(reminders') = Len(reminders) + 1
        /\ SubSeq(reminders', 1, Len(reminders)) = reminders
        /\ row.due_at = PlusDays(entries[id].date, 10)
        /\ row.is_done = FALSE
        /\ row.entry_id = Some(id)
        /\ row.pet_id = entries[id].pet_id
        /\ row.user_id = UserIdOf(u)

\* C14: the medication shortcut on an Entry the user owns, dated D, persists
\* a Reminder due D + 10 days whatever the clock reads, not done, of that
\* Entry, its Pet and the user.
C14_RepeatDueTenDaysAfterEntry ==
    [][\A u \in TelegramIds :
          LET id == ShortcutEntry(u, update')
          IN  (Handled(u) /\ id # 0) => PersistsRepeatReminder(u, id)]_vars

\* The same, for the entries whose repeat instant datetime can represent
RepeatDueWhenRepresentable ==
    [][\A u \in TelegramIds :
          LET id == ShortcutEntry(u, update')
          IN  (Handled(u) /\ id # 0
                  /\ Representable(PlusDays(entries[id].date, 10))) =>
                 PersistsRepeatReminder(u, id)]_vars

\* The shortcut on the medication of 2024-12-22, pressed after the clock
\* moved: the reminder is due 2025-01-01
RepeatDue_Reached ==
    /\ update = Callback(P_mrem_start \o <<"2">>)
    /\ last.reply = "reminder_created"
    /\ clock > StartClock
    /\ reminders # <<>>
    /\ reminders[Len(reminders)].due_at = DateTime(2025, 1, 1)
    /\ reminders[Len(reminders)].entry_id = Some(2)

\* The shortcut on a medication of 9999-12-25, a date the custom date step
\* stored: the handler raised and nothing was persisted
LastDaysRepeat_Raised ==
    /\ update = Callback(P_mrem_start \o <<"1">>)
    /\ last.reply = "raised"
    /\ entries # <<>>
    /\ entries[1].date = DateTime(9999, 12, 25)
    /\ reminders = <<>>

\* The handlers of the payloads that carry the id of a Pet, of an Entry, of
\* an Attachment
PetIdHandlers == {"pet_card_callback", "pet_set_active_callback"}
EntryIdHandlers ==
    {"entry_view_callback", "entry_files_callback", "entry_attach_start",
     "vaccine_reminder_start", "meds_dewormer_reminder_start"}
AttachmentIdHandlers == {"file_send_callback"}
IdHandlers == PetIdHandlers \cup EntryIdHandlers \cup AttachmentIdHandlers

\* Payload e, given to handler h, is well formed and carries the id of a
\* row that user u does not own (a row of another user, or no row)
NotOwnedTarget(u, h, e) ==
    LET parts == split(e.body, Colon)
        id == int(parts[Len(parts)])
    IN  /\ e.kind = "callback"
        /\ Len(parts) = (IF h = "pet_card_callback" THEN 2 ELSE 3)
        /\ id # None
        /\ IF h \in PetIdHandlers THEN ~OwnedPet(The(id), UserIdOf(u))
           ELSE IF h \in EntryIdHandlers THEN ~OwnedEntry(The(id), UserIdOf(u))
           ELSE ~OwnedAttachment(The(id), UserIdOf(u))

\* C15: for every payload that carries an id, when the Pet, Entry or
\* Attachment it names is not owned by the user, the handler answers not
\* found and changes neither the conversation state of the user nor any
\* stored entity.
C15_NotOwnedAnswersNotFound ==
    [][\A u \in TelegramIds :
          (/\ Handled(u)
           /\ last'.handler \in IdHandlers
           /\ NotOwnedTarget(u, last'.handler, update')) =>
              /\ last'.reply = "not_found"
              /\ fsm' = fsm
              /\ store' = store]_vars

\* What the handlers do when the target is not owned: nothing changes, and
\* the answer is one that shows nothing of the target, or none at all
NotOwnedChangesNothing ==
    [][\A u \in TelegramIds :
          (/\ Handled(u)
           /\ last'.handler \in IdHandlers
           /\ NotOwnedTarget(u, last'.handler, update')) =>
              /\ last'.reply \in {"not_found", "no_files", "use_start", "raised"}
              /\ fsm' = fsm
              /\ store' = store]_vars

\* A user with a row asked for the entry of another user: not found
NotOwned_NotFound ==
    /\ update = Callback(P_entry_view \o <<"1">>)
    /\ last.user = "bob" /\ last.reply = "not_found"
    /\ UserIdOf("bob") # 0

\* A user without a row asked for the pet of another user
NotOwned_UseStart ==
    /\ update = Callback(P_pet \o <<"1">>)
    /\ last.user = "bob" /\ last.reply = "use_start"
    /\ UserIdOf("bob") = 0

\* A user with a row asked for the files of the entry of another user
NotOwned_NoFiles ==
    /\ update = Callback(P_entry_files \o <<"1">>)
    /\ last.user = "bob" /\ last.reply = "no_files"
    /\ UserIdOf("bob") # 0
    /\ \E a \in DOMAIN attachments : attachments[a].entry_id = 1

\* A user asked for an entry whose id is past 2^63 - 1
NotOwned_Raised ==
    /\ update = Callback(P_entry_view \o LongId)
    /\ last.user = "alice" /\ last.reply = "raised"

\* The rules that match update e of a user in state st; those among them
\* registered for that state, and those registered for every state
Matching(e, st) == {i \in DOMAIN Rules : Matches(Rules[i], e, st)}
Qualified(e, st) == {i \in Matching(e, st) : Rules[i].state = st}
Agnostic(e, st) == {i \in Matching(e, st) : Rules[i].state = AnyState}

\* The handler that ran is that of the first matching rule
FirstMatchRan(e, st) ==
    /\ Matching(e, st) # {}
    /\ last'.handler = Rules[Min(Matching(e, st))].handler

\* A payload of the prefix pet:set_active: goes to its own handler, not to
\* that of the shorter prefix pet: nor to a catch-all
SpecificPrefixRan(e) ==
    (e.kind = "callback" /\ startswith(e.body, P_set_active)) =>
        last'.handler = "pet_set_active_callback"

\* C16 as stated: every update is given to exactly one handler, that of the
\* first rule in registration order that matches; whenever a rule of the
\* user's state and a rule for every state both match, the handler of the
\* rule of the state runs; pet:set_active: wins over pet:.
C16_FirstMatchStateFirst ==
    [][\A u \in TelegramIds :
          LET e == update'
              st == fsm[u].state
          IN  Handled(u) =>
                 /\ FirstMatchRan(e, st)
                 /\ (Qualified(e, st) # {} /\ Agnostic(e, st) # {}) =>
                        last'.handler \in {Rules[i].handler : i \in Qualified(e, st)}
                 /\ SpecificPrefixRan(e)]_vars

\* C16, amended: every update that some rule matches is given to exactly one
\* handler, that of the first rule in registration order that matches, and
\* an update no rule matches to none; a rule of the user's state wins over a
\* rule for every state except over the commands, which are registered
\* first; pet:set_active: wins over pet:.
C16_FirstMatchInRegistrationOrder ==
    [][\A u \in TelegramIds :
          LET e == update'
              st == fsm[u].state
          IN  Handled(u) =>
                 /\ IF Matching(e, st) = {} THEN last'.handler = UNHANDLED
                    ELSE FirstMatchRan(e, st)
                 /\ (Qualified(e, st) # {} /\ Agnostic(e, st) # {}) =>
                        IF IsBotCommand(e)
                        THEN last'.handler \in {Rules[i].handler : i \in Agnostic(e, st)}
                        ELSE last'.handler \in {Rules[i].handler : i \in Qualified(e, st)}
                 /\ SpecificPrefixRan(e)]_vars

\* In a step of the add-entry wizard the user pressed pet:set_active:1, which
\* the rules of both prefixes match: the handler of the longer prefix ran
C16_Witness ==
    /\ update = Callback(P_set_active \o <<"1">>)
    /\ last.user = "alice"
    /\ last.handler = "pet_set_active_callback"
    /\ fsm["alice"].state = AddEntryStates_type
    /\ Cardinality(Matching(update, fsm["alice"].state)) = 2

\* At the name step the user typed a name: the rule of the step and the
\* catch-all both match, the handler of the step ran
StepBeatsCatchAll_Reached ==
    /\ update = TextMsg(RexName)
    /\ last.handler = "pets_add_name"
    /\ fsm["alice"].state = AddPetStates_species

\* A callback no rule matches was given to no handler
Unhandled_Reached ==
    /\ update.kind = "callback"
    /\ last.handler = UNHANDLED

\* The handlers that split their payload in three tokens
ThreeTokenHandlers ==
    (IdHandlers \ {"pet_card_callback"})
        \cup {"entry_type_callback", "entry_date_callback", "vaccine_choose_vaccine",
              "vaccine_choose_delay", "summary_period_callback"}

\* Payload e, given to handler h, has the wrong number of tokens, or does
\* not end in a number where h expects an id
Malformed(h, e) ==
    LET parts == split(e.body, Colon)
    IN  /\ e.kind = "callback"
        /\ \/ h \in ThreeTokenHandlers /\ Len(parts) # 3
           \/ h \in IdHandlers \ {"pet_card_callback"}
                 /\ Len(parts) = 3 /\ int(parts[3]) = None
           \/ h = "pet_card_callback" /\ int(partition_tail(e.body, Colon)) = None

\* C17: a payload with the wrong number of tokens, or with no number where
\* an id is expected, does not make its handler raise: the handler answers
\* the callback and leaves the conversation state and every table as they
\* were.
C17_MalformedPayloadRejected ==
    [][\A u \in TelegramIds :
          (/\ Handled(u)
           /\ Malformed(last'.handler, update')) =>
              /\ last'.reply \in {"invalid_data", "bad_id"}
              /\ fsm' = fsm
              /\ store' = store]_vars

\* At the name step of the add-pet wizard the user sent vrem:start:1:1 and
\* was answered; the step is still open
C17_Witness ==
    /\ update = Callback(P_vrem_start \o <<"1", ":", "1">>)
    /\ last.handler = "vaccine_reminder_start"
    /\ last.reply = "invalid_data"
    /\ fsm["alice"].state = AddPetStates_name

\* pet:x was answered too
BadPetId_Reached ==
    /\ update = Callback(P_pet \o <<"x">>)
    /\ last.handler = "pet_card_callback"
    /\ last.reply = "bad_id"

\* The wizard a state tag belongs to
WizardOf(st) ==
    IF st \in {AddPetStates_name, AddPetStates_species, AddPetStates_breed}
    THEN "add_pet"
    ELSE IF st \in AddEntryStates THEN "add_entry"
    ELSE IF st = AttachFilesStates_adding THEN "attach_files"
    ELSE IF st = NoState THEN "none"
    ELSE "vaccine_reminder"

\* The step of user u just taken is the start step of a wizard
WizardStarted(u) ==
    /\ Handled(u)
    /\ <<last'.handler, last'.reply>> \in
          {<<"pets_add_start", "ask_name">>, <<"handle_main_menu", "choose_type">>,
           <<"vaccine_reminder_start", "ask_vaccine">>,
           <<"entry_attach_start", "send_files">>}

\* The keys the start step of a wizard writes itself
StartKeys(w) ==
    IF w = "vaccine_reminder" THEN {"entry_id", "pet_id", "pet_name", "species"}
    ELSE IF w = "attach_files" THEN {"entry_id"}
    ELSE {}

\* C18: when a wizard is started while another wizard is active, the data
\* bag of the other wizard is discarded: after the start step the bag holds
\* nothing but what the start step wrote.
C18_NewWizardDiscardsBag ==
    [][\A u \in TelegramIds :
          (/\ WizardStarted(u)
           /\ WizardOf(fsm[u].state) # "none"
           /\ WizardOf(fsm[u].state) # WizardOf(fsm'[u].state)) =>
              DOMAIN fsm'[u].data \subseteq StartKeys(WizardOf(fsm'[u].state))]_vars

\* What the start steps do: the state tag is that of the new wizard and the
\* bag is the old bag with the keys of the start step written over it
NewWizardKeepsBag ==
    [][\A u \in TelegramIds :
          WizardStarted(u) =>
              /\ DOMAIN fsm'[u].data =
                     DOMAIN fsm[u].data \cup StartKeys(WizardOf(fsm'[u].state))
              /\ \A k \in DOMAIN fsm[u].data \ StartKeys(WizardOf(fsm'[u].state)) :
                     fsm'[u].data[k] = fsm[u].data[k]]_vars

\* The add-pet wizard was started at the delay step of the vaccine reminder
\* wizard: the bag of the name step holds the entry and the reminder title
BagKept_Reached ==
    /\ update = Callback(P_pets_add)
    /\ fsm["alice"].state = AddPetStates_name
    /\ {"entry_id", "pet_id", "reminder_title"} \subseteq DOMAIN fsm["alice"].data

\* The Entry a payload of prefix p names, 0 when it names none
NamedEntry(e, p) ==
    LET id == int(Token(e, p))
    IN  IF e.kind = "callback" /\ startswith(e.body, p)
           /\ id # None /\ The(id) \in DOMAIN entries
        THEN The(id) ELSE 0

\* C19: the vaccine reminder wizard is entered, the state set to its first
\* step with the entry id in the bag, only for an Entry of type vaccine that
\* the user owns; a start request that names an Entry of another type does
\* not enter the wizard.
C19_VaccineWizardOnlyForVaccine ==
    [][\A u \in TelegramIds :
          LET id == NamedEntry(update', P_vrem_start)
          IN  /\ (/\ Handled(u)
                  /\ fsm'[u].state = VaccineReminderStates_choosing_vaccine
                  /\ fsm'[u] # fsm[u]) =>
                     /\ id # 0
                     /\ Get(fsm'[u].data, "entry_id") = Some(id)
                     /\ OwnedEntry(id, UserIdOf(u))
                     /\ entries[id].type = <<"v", "a", "c", "c", "i", "n", "e">>
              /\ (/\ Handled(u)
                  /\ last'.handler = "vaccine_reminder_start"
                  /\ id # 0
                  /\ entries[id].type # <<"v", "a", "c", "c", "i", "n", "e">>) =>
                     fsm'[u] = fsm[u]]_vars

\* What vaccine_reminder_start checks: the wizard is entered only for an
\* Entry the user owns, with its id and its Pet in the bag
VaccineWizardOnlyForOwnedEntry ==
    [][\A u \in TelegramIds :
          LET id == NamedEntry(update', P_vrem_start)
          IN  (/\ Handled(u)
               /\ fsm'[u].state = VaccineReminderStates_choosing_vaccine
               /\ fsm'[u] # fsm[u]) =>
                  /\ id # 0
                  /\ Get(fsm'[u].data, "entry_id") = Some(id)
                  /\ OwnedEntry(id, UserIdOf(u))
                  /\ Get(fsm'[u].data, "pet_id") = Some(entries[id].pet_id)]_vars

\* The wizard was entered for the medication entry
VaccineWizardForMeds_Reached ==
    /\ update = Callback(P_vrem_start \o <<"2">>)
    /\ last.reply = "ask_vaccine"
    /\ fsm["alice"].state = VaccineReminderStates_choosing_vaccine
    /\ Get(fsm["alice"].data, "entry_id") = Some(2)
    /\ entries[2].type = <<"m", "e", "d", "s">>

\* C20: the medication shortcut persists a Reminder only for an existing
\* Entry of type medication: a request that names an Entry of another type
\* creates no Reminder.
C20_RepeatOnlyForMedication ==
    [][\A u \in TelegramIds :
          LET id == NamedEntry(update', P_mrem_start)
          IN  (/\ Handled(u)
               /\ last'.handler = "meds_dewormer_reminder_start") =>
                  /\ reminders' # reminders =>
                        id # 0 /\ entries[id].type = <<"m", "e", "d", "s">>
                  /\ (id # 0 /\ entries[id].type # <<"m", "e", "d", "s">>) =>
                        reminders' = reminders]_vars

\* What meds_dewormer_reminder_start checks: a Reminder is persisted only
\* for an existing Entry that the user owns
RepeatOnlyForOwnedEntry ==
    [][\A u \in TelegramIds :
          LET id == NamedEntry(update', P_mrem_start)
          IN  (/\ Handled(u)
               /\ last'.handler = "meds_dewormer_reminder_start"
               /\ reminders' # reminders) =>
                  id # 0 /\ OwnedEntry(id, UserIdOf(u))]_vars

\* The shortcut persisted a Reminder for the vaccination entry
RepeatForVaccine_Reached ==
    /\ update = Callback(P_mrem_start \o <<"1">>)
    /\ last.reply = "reminder_created"
    /\ reminders # <<>>
    /\ reminders[Len(reminders)].entry_id = Some(1)
    /\ entries[1].type = <<"v", "a", "c", "c", "i", "n", "e">>

\* C21: the medication shortcut is one step: in whatever conversation state
\* it is pressed, the state tag and the data bag of every user stay as they
\* were, and the store changes by at most the one Reminder appended.
C21_ShortcutIsOneStep ==
    [][\A u \in TelegramIds :
          (Handled(u) /\ last'.handler = "meds_dewormer_reminder_start") =>
              /\ fsm' = fsm
              /\ <<users', pets', entries', attachments'>> =
                     <<users, pets, entries, attachments>>
              /\ \/ reminders' = reminders
                 \/ /\ last'.reply = "reminder_created"
                    /\ Len(reminders') = Len(reminders) + 1
                    /\ SubSeq(reminders', 1, Len(reminders)) = reminders]_vars

\* The shortcut was pressed at the first step of the vaccine reminder
\* wizard: the Reminder exists and the step, with its bag, is still open
C21_Witness ==
    /\ update = Callback(P_mrem_start \o <<"2">>)
    /\ last.reply = "reminder_created"
    /\ reminders # <<>>
    /\ fsm["alice"].state = VaccineReminderStates_choosing_vaccine
    /\ Get(fsm["alice"].data, "entry_id") = Some(1)

\* The step appends one Attachment of the Entry in the bag of u, of the kind
\* of the file sent, and leaves the conversation of u as it was
AttachesOne(u, e) ==
    LET row == attachments'[Len(attachments')]
    IN  /\ Len(attachments') = Len(attachments) + 1
        /\ SubSeq(attachments', 1, Len(attachments)) = attachments
        /\ Some(row.entry_id) = Get(fsm[u].data, "entry_id")
        /\ row.kind = e.kind
        /\ row.file_unique_id = e.file
        /\ fsm'[u] = fsm[u]

\* C22: while a user is in the state adding of the attach wizard, every
\* photo and every document they send adds exactly one Attachment to the
\* Entry taken at the start of the wizard, of the matching kind, and the
\* state stays adding; also for a file whose fingerprint is already stored.
C22_EveryFileAttached ==
    [][\A u \in TelegramIds :
          (/\ Handled(u)
           /\ fsm[u].state = AttachFilesStates_adding
           /\ update'.kind \in {"photo", "document"}) =>
              AttachesOne(u, update')]_vars

\* The same, for the files whose fingerprint no Attachment carries yet; a
\* file whose fingerprint is stored adds nothing and changes nothing
FileAttachedWhenNew ==
    [][\A u \in TelegramIds :
          LET e == update'
              stored == \E a \in DOMAIN attachments :
                            attachments[a].file_unique_id = e.file
          IN  (/\ Handled(u)
               /\ fsm[u].state = AttachFilesStates_adding
               /\ e.kind \in {"photo", "document"}) =>
                  IF stored
                  THEN attachments' = attachments /\ fsm' = fsm
                  ELSE AttachesOne(u, e)]_vars

\* A file was attached, and sent again: the second INSERT raised
StoredFileSentAgain_Reached ==
    /\ update.kind \in {"photo", "document"}
    /\ last.reply = "error"
    /\ Len(attachments) = 1
    /\ attachments[1].file_unique_id = update.file
    /\ fsm[last.user].state = AttachFilesStates_adding

\* C23: in every reachable state no two Attachments carry the same
\* fingerprint, unless the fingerprint is absent.
C23_FingerprintsUnique ==
    \A a, b \in DOMAIN attachments :
        (a # b /\ attachments[a].file_unique_id # None) =>
            attachments[a].file_unique_id # attachments[b].file_unique_id

\* Two files are attached, and the first was sent a second time and refused
C23_Witness ==
    /\ Len(attachments) = 2
    /\ attachments[1].file_unique_id # None
    /\ attachments[2].file_unique_id # None
    /\ update.file = attachments[1].file_unique_id
    /\ last.reply = "error"

\* C24: in every reachable state the active pet of every User is absent or
\* is the id of an existing Pet of that User.
C24_ActivePetIsOwned ==
    \A i \in DOMAIN users :
        users[i].active_pet_id = None
            \/ OwnedPet(The(users[i].active_pet_id), i)

\* One user made their pet active; another user, who has a row, asked for
\* the same pet and was refused
C24_Witness ==
    /\ update = Callback(P_set_active \o <<"1">>)
    /\ last.user = "bob" /\ last.reply = "not_found"
    /\ UserIdOf("bob") # 0
    /\ users[UserIdOf("bob")].active_pet_id = None
    /\ users[UserIdOf("alice")].active_pet_id = Some(1)
    /\ pets[1].user_id = UserIdOf("alice")

\* C25: every Pet the add-pet wizard persists has a name that is not empty,
\* has at most 64 characters and neither < nor >, and a species among cat,
\* dog and other.
C25_PetsAreValid ==
    \A p \in DOMAIN pets :
        /\ pets[p].name # <<>>
        /\ Len(pets[p].name) <= MAX_PET_NAME_LENGTH
        /\ \A i \in DOMAIN pets[p].name : pets[p].name[i] \notin {"<", ">"}
        /\ pets[p].species \in PetSpecies

\* What the steps of the wizard check: the name is not empty and has no
\* space at either end, the species is among cat, dog and other
PetsNamedAndOfListedSpecies ==
    \A p \in DOMAIN pets :
        /\ pets[p].name # <<>>
        /\ strip(pets[p].name) = pets[p].name
        /\ pets[p].species \in PetSpecies

\* Two pets persisted by the wizard, one named <b>, one with a name of 65
\* characters
UnvalidatedNames_Reached ==
    /\ Len(pets) = 2
    /\ {pets[1].name, pets[2].name} = {MarkupName, LongName}
    /\ last.reply = "pet_created"

\* C26: every Entry the add-entry wizard persists has a text that is not
\* empty and has at most 2000 characters, and a type among symptom, visit,
\* vaccine, meds and other.
C26_EntriesAreValid ==
    \A n \in DOMAIN entries :
        /\ entries[n].text # <<>>
        /\ Len(entries[n].text) <= MAX_ENTRY_TEXT_LENGTH
        /\ entries[n].type \in EntryType

\* What the steps of the wizard check: the text is not empty and has no
\* space at either end, the type is among the five
EntriesWithTextAndOfListedType ==
    \A n \in DOMAIN entries :
        /\ entries[n].text # <<>>
        /\ strip(entries[n].text) = entries[n].text
        /\ entries[n].type \in EntryType

\* An Entry with a text of 2001 characters was persisted
UnvalidatedText_Reached ==
    /\ entries # <<>>
    /\ entries[Len(entries)].text = LongText
    /\ last.reply = "entry_saved"

\* The bag lacks a key the terminal step of the wizard of state st needs, or
\* holds None or the empty string under it
ContextMissing(st, bag) ==
    IF st = AddEntryStates_text
    THEN ~TruthyStr(Get(bag, "entry_type")) \/ ~TruthyStr(Get(bag, "date"))
    ELSE ~TruthyStr(Get(bag, "name")) \/ ~TruthyStr(Get(bag, "species"))

\* Update e makes the terminal step of state st run: a text that is not
\* blank, or the skip button of the breed step
RunsTerminalStep(st, e) ==
    \/ st \in {AddEntryStates_text, AddPetStates_breed}
          /\ StepText(e) /\ strip(e.body) # <<>>
    \/ st = AddPetStates_breed /\ e = Callback(P_breed_skip)

\* C27: when the terminal step of the add-entry or of the add-pet wizard
\* runs with a bag that lacks the entry type or the date, the name or the
\* species, the state of the user is cleared and no Pet and no Entry is
\* persisted.
C27_MissingContextClears ==
    [][\A u \in TelegramIds :
          (/\ Handled(u)
           /\ RunsTerminalStep(fsm[u].state, update')
           /\ ContextMissing(fsm[u].state, fsm[u].data)) =>
              /\ fsm'[u] = Cleared
              /\ last'.reply = "failed_restart"
              /\ pets' = pets
              /\ entries' = entries]_vars

\* The text step ran on a bag without a date: the conversation is cleared
\* and no Entry exists
C27_Witness ==
    /\ update = TextMsg(Note)
    /\ last.handler = "entry_text_message"
    /\ last.from = AddEntryStates_text
    /\ last.reply = "failed_restart"
    /\ fsm["alice"] = Cleared
    /\ entries = <<>>

\* The breed step ran on a bag without a name
LostName_Reached ==
    /\ last.handler \in {"pets_add_breed", "pets_add_breed_skip"}
    /\ last.reply = "failed_restart"
    /\ fsm["alice"] = Cleared
    /\ Len(pets) = 1

\* In the behaviours of Spec a user at a terminal step has the context
TerminalStepsHaveContext ==
    \A u \in TelegramIds :
        fsm[u].state \in {AddEntryStates_text, AddPetStates_breed} =>
            ~ContextMissing(fsm[u].state, fsm[u].data)

\* The calendar date of the clock, n days later, as the text the bag keeps
DayText(n) ==
    LET d == FromOrdinal((clock \div TicksPerDay) + n)
    IN  zfill(str(d.year), 4) \o <<"-">> \o zfill(str(d.month), 2) \o <<"-">>
            \o zfill(str(d.day), 2) \o <<"T">> \o <<"0", "0", ":", "0", "0", ":", "0", "0">>

\* C28: at the date choice of the add-entry wizard "today" stores the
\* calendar date of the clock and moves to the text step, "yesterday" stores
\* the date of the day before and moves to the text step, "custom" moves to
\* the custom date step and stores nothing, and any other choice leaves the
\* conversation at the date choice as it was.
C28_DateChoice ==
    [][\A u \in TelegramIds :
          (Handled(u) /\ last'.handler = "entry_date_callback") =>
              LET choice == SubSeq(update'.body, Len(P_entry_date) + 1, Len(update'.body))
              IN  /\ fsm[u].state = AddEntryStates_date_choice
                  /\ \A v \in TelegramIds \ {u} : fsm'[v] = fsm[v]
                  /\ IF choice = <<"t", "o", "d", "a", "y">>
                     THEN /\ fsm'[u].state = AddEntryStates_text
                          /\ fsm'[u].data = update_data(fsm[u], [date |-> Some(DayText(0))]).data
                     ELSE IF choice = <<"y", "e", "s", "t", "e", "r", "d", "a", "y">>
                     THEN /\ fsm'[u].state = AddEntryStates_text
                          /\ fsm'[u].data = update_data(fsm[u], [date |-> Some(DayText(0 - 1))]).data
                     ELSE IF choice = <<"c", "u", "s", "t", "o", "m">>
                     THEN /\ fsm'[u].state = AddEntryStates_custom_date
                          /\ fsm'[u].data = fsm[u].data
                     ELSE fsm'[u] = fsm[u]]_vars

\* "yesterday" was pressed on the second day of the clock: the bag holds the
\* first day and the conversation is at the text step
C28_Witness ==
    /\ update = Callback(P_entry_date \o <<"y", "e", "s", "t", "e", "r", "d", "a", "y">>)
    /\ last.handler = "entry_date_callback"
    /\ clock \div TicksPerDay = (StartClock \div TicksPerDay) + 1
    /\ fsm["alice"].state = AddEntryStates_text
    /\ Get(fsm["alice"].data, "date") = Some(<<"2", "0", "2", "5", "-", "0", "1", "-", "0", "1", "T", "0", "0", ":", "0", "0", ":", "0", "0">>)

\* A choice off the list was pressed: the conversation stays at the date
\* choice
OtherChoice_Reached ==
    /\ update = Callback(P_entry_date \o <<"n", "e", "v", "e", "r">>)
    /\ last.handler = "entry_date_callback"
    /\ last.reply = "reprompt"
    /\ fsm["alice"].state = AddEntryStates_date_choice

\* No user other than u had the state tag or the data bag changed
OthersKeepConversation(u) == \A v \in TelegramIds \ {u} : fsm'[v] = fsm[v]

\* A row of u holds the fingerprint f
HoldsFile(u, f) ==
    \E a \in DOMAIN attachments :
        /\ attachments[a].file_unique_id = f
        /\ OwnedAttachment(a, UserIdOf(u))

\* C29: the conversation is per user: the step that handles an event of a
\* user leaves the state tag and the data bag of every other user as they
\* were, and what a wizard step does for a user does not depend on the events
\* of the others: a file the user sends to the attach wizard is refused only
\* when a row of that user already holds its fingerprint.
C29_ConversationPerUser ==
    [][\A u \in TelegramIds :
          Handled(u) =>
              /\ OthersKeepConversation(u)
              /\ (/\ last'.handler \in {"entry_attach_photo", "entry_attach_document"}
                  /\ last'.reply = "error") => HoldsFile(u, update'.file)]_vars

\* Every step, of a user or of the worker, leaves the conversation of every
\* user it does not handle as it was
ConversationsOfOthersKept ==
    [][/\ \A u \in TelegramIds : Handled(u) => OthersKeepConversation(u)
       /\ (\A u \in TelegramIds : ~Handled(u)) => fsm' = fsm]_vars

\* alice attached the file; bob, at the attach step of an entry of bob, sent
\* the same file and the INSERT raised
OthersFileRefused_Reached ==
    /\ last.user = "bob"
    /\ last.handler = "entry_attach_photo"
    /\ last.reply = "error"
    /\ Get(fsm["bob"].data, "entry_id") = Some(2)
    /\ Len(attachments) = 1
    /\ attachments[1].entry_id = 1

\* /cancel of alice while bob is in a wizard: the conversation of bob is
\* still open
CancelKeepsOthers_Reached ==
    /\ last.user = "alice"
    /\ last.handler = "cmd_cancel"
    /\ last.from = AttachFilesStates_adding
    /\ fsm["alice"] = Cleared
    /\ fsm["bob"].state = AttachFilesStates_adding

\* The step is one of the worker's pass
WorkerStep == worker' # worker

\* The rows the pass under way has loaded
Selected == worker.marked \cup {worker.rows[i] : i \in DOMAIN worker.rows}

\* C30: a pass of the scheduler leaves the users, pets, entries, attachments
\* and conversations as they are, adds and removes no reminder, and changes
\* of a reminder only is_done and last_sent_at, and only of the rows it
\* selected.  A reminder is changed once after it is made: only the scheduler
\* changes it, only while it is not done and was never stamped, and it is
\* done and stamped afterwards; and every due reminder does get that change.
C30_PassChangesOnlyItsRows ==
    /\ [][/\ WorkerStep =>
                /\ <<users', pets', entries', attachments', fsm'>> =
                       <<users, pets, entries, attachments, fsm>>
                /\ DOMAIN reminders' = DOMAIN reminders
          /\ \A r \in DOMAIN reminders :
                /\ r \in DOMAIN reminders'
                /\ reminders'[r] # reminders[r] =>
                      /\ WorkerStep
                      /\ r \in Selected
                      /\ ~reminders[r].is_done
                      /\ reminders[r].last_sent_at = None
                      /\ reminders'[r] = [reminders[r] EXCEPT
                                             !.is_done = TRUE,
                                             !.last_sent_at = Some(worker.now)]]_vars
    /\ \A r \in 1..MaxReminders :
          (r \in DOMAIN reminders /\ r \in DueRows(clock))
            ~> (r \in DOMAIN reminders /\ reminders[r].last_sent_at # None)

\* A pass that selected one reminder has committed while a reminder made
\* during the pass, due as well, is as it was made, and a conversation that
\* was open is still open
C30_Witness ==
    /\ worker.pc = "sleep"
    /\ Len(reminders) = 2
    /\ reminders[1].is_done /\ reminders[1].last_sent_at # None
    /\ reminders[2] = NewReminder(reminders[2].user_id, reminders[2].pet_id,
                                  reminders[2].entry_id, reminders[2].title,
                                  reminders[2].due_at)
    /\ reminders[2].due_at <= The(reminders[1].last_sent_at)
    /\ \E u \in TelegramIds : fsm[u] # Cleared

\* What the custom delay step does with the text typed: it asks again and
\* keeps the step for a text that is no integer or an integer not above zero
\* and, when the precondition pre holds of the days typed, makes the
\* Reminder and clears the conversation for a positive integer
CustomDelayStep(pre(_)) ==
    \A u \in TelegramIds :
        (Handled(u) /\ last'.handler = "vaccine_custom_delay_message") =>
            LET days == int(strip(update'.body))
            IN  /\ fsm[u].state = VaccineReminderStates_custom_delay
                /\ IF days = None \/ The(days) <= 0
                   THEN /\ fsm'[u] = fsm[u]
                        /\ reminders' = reminders
                        /\ last'.reply = "reprompt"
                   ELSE pre(The(days)) =>
                        /\ Len(reminders') = Len(reminders) + 1
                        /\ SubSeq(reminders', 1, Len(reminders)) = reminders
                        /\ fsm'[u] = Cleared

AnyDays(d) == TRUE

DueRepresentable(d) == Representable(PlusDays(clock, d))

\* C31: at the custom delay step of the vaccine reminder wizard a text that
\* is no integer, or an integer less than or equal to zero, leaves the state
\* at the custom delay step and creates no Reminder; a positive integer
\* creates the Reminder and clears the state.
C31_CustomDelayStep == [][CustomDelayStep(AnyDays)]_vars

\* The same, for the positive integers whose due instant datetime can
\* represent
CustomDelayStepWhenRepresentable == [][CustomDelayStep(DueRepresentable)]_vars

\* A positive integer was typed and the step raised: no Reminder, and the
\* conversation is still at the custom delay step
PositiveDelayRefused_Reached ==
    /\ update = TextMsg(HugeDelay)
    /\ last.handler = "vaccine_custom_delay_message"
    /\ last.reply = "raised"
    /\ reminders = <<>>
    /\ fsm["alice"].state = VaccineReminderStates_custom_delay

\* Zero was typed: the step asked again
ZeroDelay_Reached ==
    /\ update = TextMsg(<<"0">>)
    /\ last.handler = "vaccine_custom_delay_message"
    /\ last.reply = "reprompt"
    /\ fsm["alice"].state = VaccineReminderStates_custom_delay

\* The titles the menu of a species leads to
MenuTitles(species) == {title_map(s) : s \in VaccineMenu(species)}

\* The Reminders the vaccine reminder wizard made: the shortcut writes its
\* own title
WizardReminders == {r \in DOMAIN reminders : reminders[r].title # DEWORMER_TITLE}

\* C32: every Reminder the vaccine reminder wizard created has a title that
\* is one of the titles of the menu for the species of its Pet.
C32_TitleOfSpeciesMenu ==
    \A r \in WizardReminders :
        reminders[r].title \in MenuTitles(pets[reminders[r].pet_id].species)

\* What the step does check: the title is one title_map gives, the default
\* for a slug it does not know included
TitleOfTitleMap ==
    \A r \in WizardReminders :
        reminders[r].title \in
            UNION {MenuTitles(s) : s \in PetSpecies} \cup {title_map(<<>>)}

\* A Reminder with the default title, which no menu offers
DefaultTitle_Reached ==
    /\ reminders # <<>>
    /\ reminders[Len(reminders)].title = title_map(<<>>)
    /\ last.reply = "reminder_created"

\* A Reminder for a dog with a title of the menu of dogs
MenuTitle_Reached ==
    /\ reminders # <<>>
    /\ reminders[Len(reminders)].title = title_map(<<"r", "a", "b", "i", "e", "s">>)
    /\ pets[reminders[Len(reminders)].pet_id].species = <<"d", "o", "g">>

\* The step of handler h appended a Reminder
WizardCreates(h) ==
    /\ last'.handler = h
    /\ last'.reply = "reminder_created"
    /\ Len(reminders') = Len(reminders) + 1

\* C33: every Reminder the vaccine reminder wizard creates, at the delay
\* step as well as at the custom delay step, is due at least one day after
\* the instant of its creation, so due_at is strictly later than that
\* instant.
C33_DueAfterCreation ==
    [][\A h \in {"vaccine_choose_delay", "vaccine_custom_delay_message"} :
          WizardCreates(h) =>
              /\ reminders'[Len(reminders')].due_at >= PlusDays(clock, 1)
              /\ reminders'[Len(reminders')].due_at > clock]_vars

\* The custom delay step checks the days typed: its Reminders are due at
\* least a day later
CustomDelayDueAfterCreation ==
    [][WizardCreates("vaccine_custom_delay_message") =>
          reminders'[Len(reminders')].due_at >= PlusDays(clock, 1)]_vars

\* The delay step made a Reminder that is due at the instant it was made,
\* and the worker has already selected it
DueAtCreation_Reached ==
    /\ update = Callback(P_vrem_delay \o <<"0">>)
    /\ last.handler = "vaccine_choose_delay"
    /\ last.reply = "reminder_created"
    /\ reminders # <<>>
    /\ reminders[Len(reminders)].due_at = clock
    /\ worker.pc = "send"

\* A pass is under way and did not load reminder r: r was made after the
\* SELECT of the pass, or was not due then
MadeDuringPass(r) ==
    /\ worker.pc = "send"
    /\ r \in DOMAIN reminders
    /\ r \notin Selected

\* C34: with the handlers of user events interleaved with a pass of the
\* scheduler wherever the pass waits, every done Reminder has had exactly one
\* delivery attempt; a Reminder made while a pass is under way is not marked
\* by that pass, and once due is done by a later one.
C34_InterleavedPassMarksItsRows ==
    /\ [](\A r \in DOMAIN reminders :
             reminders[r].is_done => Len(deliveries[r]) = 1)
    /\ [][\A r \in DOMAIN reminders :
             MadeDuringPass(r) =>
                 /\ reminders'[r] = reminders[r]
                 /\ deliveries'[r] = deliveries[r]
                 /\ worker'.pc = "send" => r \notin worker'.marked]_vars
    /\ \A r \in 1..MaxReminders :
          (MadeDuringPass(r) /\ r \in DueRows(clock))
            ~> (r \in DOMAIN reminders /\ reminders[r].is_done
                    /\ Len(deliveries[r]) = 1)

\* The pass has sent the first reminder and waits; meanwhile the user made a
\* second one that is already due at the pass's now, and the pass has not
\* loaded it
C34_Witness ==
    /\ worker.pc = "send"
    /\ Len(reminders) = 2
    /\ worker.marked = {1}
    /\ worker.rows = <<>>
    /\ Len(deliveries[1]) = 1
    /\ reminders[2].due_at <= worker.now
    /\ ~reminders[2].is_done
    /\ deliveries[2] = <<>>
    /\ last.reply = "reminder_created"

\* Both are done, each after one attempt, the second by a later pass
LaterPass_Reached ==
    /\ Len(reminders) = 2
    /\ reminders[1].is_done /\ reminders[2].is_done
    /\ Len(deliveries[1]) = 1 /\ Len(deliveries[2]) = 1
    /\ reminders[2].due_at <= The(reminders[1].last_sent_at)
    /\ deliveries[2][1].at > deliveries[1][1].at

\* C35: in every reachable state and for every Reminder, is_done is true if
\* and only if last_sent_at is set, and when it is set due_at is not later
\* than last_sent_at: no reminder is consumed before it is due.
C35_DoneIffStampedNotBeforeDue ==
    \A r \in DOMAIN reminders :
        /\ reminders[r].is_done <=> reminders[r].last_sent_at # None
        /\ reminders[r].last_sent_at # None =>
               reminders[r].due_at <= The(reminders[r].last_sent_at)

\* A reminder that was due before it was made was consumed by the pass that
\* followed, past its due instant, and the worker is asleep again
C35_Witness ==
    /\ worker.pc = "sleep"
    /\ \E r \in DOMAIN reminders :
           /\ reminders[r].is_done
           /\ reminders[r].last_sent_at # None
           /\ reminders[r].due_at < The(reminders[r].last_sent_at)

\* A reminder that is not due yet is not done and has no stamp, after time
\* has passed
NotDueNotStamped_Reached ==
    /\ clock > StartClock
    /\ worker.pc = "sleep"
    /\ \E q \in DOMAIN reminders :
           /\ ~reminders[q].is_done
           /\ reminders[q].last_sent_at = None
           /\ reminders[q].due_at > clock

\* The bag holds what the steps of state st read from it
HasContext(st, bag) ==
    CASE st = AddPetStates_breed ->
             TruthyStr(Get(bag, "name")) /\ TruthyStr(Get(bag, "species"))
      [] st = AddEntryStates_text ->
             TruthyStr(Get(bag, "entry_type")) /\ TruthyStr(Get(bag, "date"))
      [] st \in {VaccineReminderStates_choosing_vaccine,
                 VaccineReminderStates_choosing_delay,
                 VaccineReminderStates_custom_delay} ->
             TruthyInt(Get(bag, "entry_id")) /\ TruthyInt(Get(bag, "pet_id"))
      [] st = AttachFilesStates_adding -> TruthyInt(Get(bag, "entry_id"))
      [] OTHER -> TRUE

\* The answer of a branch that a step takes when the bag lacks its context
MissingContextAnswer ==
    \/ last.handler \in {"entry_text_message", "pets_add_breed", "pets_add_breed_skip"}
          /\ last.reply = "failed_restart"
    \/ last.handler \in {"vaccine_choose_delay", "vaccine_custom_delay_message"}
          /\ last.reply = "error"
    \/ last.handler \in {"entry_attach_photo", "entry_attach_document"}
          /\ last.reply = "none"

\* C36: in every reachable conversation state the bag holds the context of
\* the state: name and species at the breed step, entry type and date at the
\* text step, entry id and pet id at the three steps of the vaccine reminder
\* wizard, entry id at the attach step; hence no sequence of routed events
\* reaches a branch for a missing context.
C36_StatesHaveContext ==
    /\ \A u \in TelegramIds : HasContext(fsm[u].state, fsm[u].data)
    /\ ~MissingContextAnswer

\* The attach step is open for entry 1 on a bag that still holds what the
\* vaccine reminder wizard, left unfinished, had written
C36_Witness ==
    /\ fsm["alice"].state = AttachFilesStates_adding
    /\ Get(fsm["alice"].data, "entry_id") # None
    /\ "pet_id" \in DOMAIN fsm["alice"].data
    /\ last.reply = "send_files"

\* The custom delay step is open with the entry and the pet in the bag
CustomDelayHasContext_Reached ==
    /\ fsm["alice"].state = VaccineReminderStates_custom_delay
    /\ Get(fsm["alice"].data, "entry_id") = Some(1)
    /\ Get(fsm["alice"].data, "pet_id") = Some(1)

\* Reminder r is of a Pet of its User and, when it names an Entry, of an
\* Entry of that Pet
ReminderRefsOwned(r) ==
    /\ OwnedPet(reminders[r].pet_id, reminders[r].user_id)
    /\ reminders[r].entry_id # None =>
           /\ The(reminders[r].entry_id) \in DOMAIN entries
           /\ entries[The(reminders[r].entry_id)].pet_id = reminders[r].pet_id

\* C37: in every reachable state every Reminder references a Pet owned by
\* the Reminder's User and, when it has an originating Entry, an Entry of
\* that Pet; and every Attachment is added to an Entry of a Pet owned by the
\* user who sent the file, although the terminal steps take the ids from the
\* bag and do not check the ownership again.
C37_ReferencesStayOwned ==
    /\ [](\A r \in DOMAIN reminders : ReminderRefsOwned(r))
    /\ [][\A u \in TelegramIds :
             (Handled(u) /\ Len(attachments') = Len(attachments) + 1) =>
                 /\ UserIdOf(u) # 0
                 /\ OwnedEntry(attachments'[Len(attachments')].entry_id, UserIdOf(u))
                 /\ <<users', pets', entries'>> = <<users, pets, entries>>]_vars

\* bob, refused for the entry of alice, attached a file to the entry of bob,
\* and alice one to hers
C37_Witness ==
    /\ run = "shared"
    /\ Len(attachments) = 1
    /\ attachments[1].entry_id = 2
    /\ last.user = "bob"
    /\ last.handler = "entry_attach_start"
    /\ last.reply = "not_found"
    /\ update = Callback(P_entry_attach \o <<"1">>)

\* A Reminder of the wizard and one of the shortcut, each of the Pet of its
\* Entry
BothRemindersOwned_Reached ==
    /\ Len(reminders) = 2
    /\ reminders[1].title # reminders[2].title
    /\ reminders[1].entry_id # reminders[2].entry_id
    /\ \A r \in DOMAIN reminders : ReminderRefsOwned(r)

\* C38: an Entry the add-entry wizard creates is stored for the Pet that is
\* the active Pet of the user at the moment the text step completes: when the
\* user makes another Pet active between the start of the wizard and the
\* text, the Entry goes to the newly active Pet.
C38_EntryGoesToActivePet ==
    [][\A u \in TelegramIds :
          (/\ Handled(u)
           /\ last'.handler = "entry_text_message"
           /\ Len(entries') = Len(entries) + 1) =>
              /\ UserIdOf(u) # 0
              /\ Some(entries'[Len(entries')].pet_id) = users[UserIdOf(u)].active_pet_id
              /\ users' = users]_vars

\* The wizard began with the first Pet active, the second was made active at
\* the text step, and the Entry is of the second
C38_Witness ==
    /\ run = "switch"
    /\ update = TextMsg(Note)
    /\ last.reply = "entry_saved"
    /\ users[1].active_pet_id = Some(2)
    /\ Len(entries) = 1
    /\ entries[1].pet_id = 2
    /\ fsm["alice"] = Cleared

\* C39: within one pass that selected several due reminders, the failure of
\* the delivery of one prevents neither the attempt for nor the marking of
\* any other: whatever the outcome of a send, the pass keeps every row it
\* selected, and when it commits every one of them has had its attempt and
\* is done.
C39_FailureSparesTheOthers ==
    [][/\ (WorkerStep /\ worker.pc = "send" /\ worker'.pc = "send") =>
              /\ worker.rows # <<>>
              /\ Selected' = Selected
              /\ Len(deliveries'[Head(worker.rows)]) = Len(deliveries[Head(worker.rows)]) + 1
              /\ worker'.rows = Tail(worker.rows)
       /\ (worker.pc = "send" /\ worker'.pc = "sleep") =>
              \A r \in Selected :
                  /\ Len(deliveries[r]) = 1
                  /\ deliveries[r][1].at = worker.now
                  /\ reminders'[r].is_done]_vars

\* A pass selected two reminders; the send of the first raised and the pass
\* went on to send the second, and has marked both
C39_Witness ==
    /\ worker.pc = "send"
    /\ worker.marked = {1, 2}
    /\ deliveries[1] = <<[outcome |-> "failed", at |-> worker.now]>>
    /\ deliveries[2] = <<[outcome |-> "sent", at |-> worker.now]>>

\* The text is a date between 1900-01-01 and one day after the instant now
DateInRange(text, now) ==
    LET parsed == strptime(strip(text))
        t == DateTime(The(parsed).year, The(parsed).month, The(parsed).day)
    IN  /\ parsed # None
        /\ DateTime(1900, 1, 1) <= t
        /\ t <= PlusDays(now, 1)

\* The step is a call of validate_date
Validates == last'.handler = "validate_date" /\ <<last', update'>> # <<last, update>>

\* C40: validate_date returns the date for every well-formed text whose date
\* lies between 1900-01-01 and the current instant plus one day, and signals
\* ValidationError, and no other error, for a text that does not parse, a
\* date before 1900-01-01 and a date more than a day ahead.
C40_ValidateDate ==
    [][Validates =>
          IF DateInRange(update'.body, clock)
          THEN LET parsed == strptime(strip(update'.body))
               IN  /\ last'.reply = "returned"
                   /\ last'.value = Some(DateTime(The(parsed).year, The(parsed).month,
                                                  The(parsed).day))
          ELSE last'.reply = "ValidationError"]_vars

\* What the function does do: a text that does not parse is answered with
\* ValidationError, and every text that parses with TypeError
ValidateDateRaises ==
    [][Validates =>
          last'.reply = IF strptime(strip(update'.body)) = None
                        THEN "ValidationError" ELSE "TypeError"]_vars

\* A date of the year before the clock's, in range, was answered with
\* TypeError
InRangeDateTypeError_Reached ==
    /\ update = TextMsg(<<"2", "0", "2", "4", "-", "1", "2", "-", "3", "1">>)
    /\ last.handler = "validate_date"
    /\ last.reply = "TypeError"

\* A text that is no date was answered with ValidationError
NotADateRejected_Reached ==
    /\ update = TextMsg(NotADate)
    /\ last.handler = "validate_date"
    /\ last.reply = "ValidationError"

====
